---- MODULE Spec2Model ----
(***************************************************************************)
(* Appointment-booking backend (src/api.js, final copy at lines 863-1886): *)
(* availability query, slot generation, booking and cancellation; the      *)
(* doctor and patient routes of src/unnamed/part_000; the one-time         *)
(* passcodes of src/otpService.js.                                         *)
(*                                                                         *)
(* Representation of the JavaScript values:                                *)
(*   "HH:MM" strings          <<h, m>>                                     *)
(*   "YYYY-MM-DD" strings     <<month, day>> of the year 2025; <<0, 0>> is *)
(*                            a missing (falsy) date and <<100, 0>> a text *)
(*                            that is not of the form YYYY-MM-DD           *)
(*   "hh:mm AM" display text  [hh, mm, period]                             *)
(*   a time-slot label        a sequence of display texts; <<>> is a       *)
(*                            missing (falsy) label                        *)
(*   "<date>T<HH:MM>:00+05:30" [date, h, m]                                *)
(*   Date.getTime()           minutes since 2025-01-01T00:00+05:30 minus   *)
(*                            one day; NaN for an Invalid Date             *)
(*   undefined / null         the string "" (a falsy string field)         *)
(***************************************************************************)
EXTENDS Integers, Sequences, FiniteSets, Bags, TLC

VARIABLES doctors, patients, appointments, calendarEvents, sentEmails,
          env, busyCalendar, req, qry, out, nextId, fin, fout,
          otpStore, now, timers, otpOut, otpHist

otpVars == <<otpStore, now, timers, otpOut, otpHist>>

vars == <<doctors, patients, appointments, calendarEvents, sentEmails,
          env, busyCalendar, req, qry, out, nextId, fin, fout, otpVars>>

-----------------------------------------------------------------------------
(* Bounds of the model *)

MaxAppts == 3

MaxPatients == 3

-----------------------------------------------------------------------------
(* Dates and instants *)

NaN == 0 - 1

MinutesPerDay == 24 * 60

SlotMinutes == 30

DaysInMonth(mo) ==
  IF mo = 2 THEN 28 ELSE IF mo \in {4, 6, 9, 11} THEN 30 ELSE 31

RECURSIVE DaysBeforeMonth(_)
DaysBeforeMonth(mo) ==
  IF mo <= 1 THEN 0 ELSE DaysBeforeMonth(mo - 1) + DaysInMonth(mo - 1)

\* The date part of `new Date(iso)`: the engine accepts a month 1..12 and a
\* day 1..31 and lets a day past the end of the month run into the next one.
DateIsParsable(date) ==
  /\ date[1] \in 1..12
  /\ date[2] \in 1..31

DayNumber(date) == DaysBeforeMonth(date[1]) + date[2]

\* new Date(`${date}T${HH}:${MM}:00+05:30`).getTime()
DateGetTime(iso) ==
  IF /\ DateIsParsable(iso.date)
     /\ \/ (iso.h \in 0..23 /\ iso.m \in 0..59)
        \/ (iso.h = 24 /\ iso.m = 0)
  THEN DayNumber(iso.date) * MinutesPerDay + iso.h * 60 + iso.m
  ELSE NaN

\* comparison of two getTime() numbers: any comparison with NaN is false
NumLt(a, b) == a # NaN /\ b # NaN /\ a < b

WeekdayNames ==
  <<"sunday", "monday", "tuesday", "wednesday", "thursday", "friday", "saturday">>

\* new Date(date + 'T00:00:00').toLocaleDateString('en-US', {weekday:'long'})
\* (1 January 2025 is a Wednesday)
DayOfWeek(date) ==
  IF DateIsParsable(date)
  THEN WeekdayNames[((DayNumber(date) + 2) % 7) + 1]
  ELSE "invalid date"

-----------------------------------------------------------------------------
(* Slot generation *)

formatTimeDisplay(hour, minute) ==
  [hh |-> IF hour > 12 THEN hour - 12 ELSE IF hour = 0 THEN 12 ELSE hour,
   mm |-> minute,
   period |-> IF hour >= 12 THEN "PM" ELSE "AM"]

OverlapsMutEndpoint(aStart, aEnd, bStart, bEnd) ==
  (aStart # NaN /\ bEnd # NaN /\ aStart <= bEnd) /\ NumLt(bStart, aEnd)

\* slotStartTime < busyEnd && slotEndTime > busyStart
Overlaps(aStart, aEnd, bStart, bEnd) ==
  NumLt(aStart, bEnd) /\ NumLt(bStart, aEnd)

isSlotConflicting(slotStart, slotEnd, busyPeriods, existingAppointments) ==
  LET slotStartTime == DateGetTime(slotStart)
      slotEndTime == DateGetTime(slotEnd)
  IN \/ \E i \in 1..Len(busyPeriods) :
          Overlaps(slotStartTime, slotEndTime,
                   busyPeriods[i].start, busyPeriods[i].end)
     \/ \E i \in 1..Len(existingAppointments) :
          Overlaps(slotStartTime, slotEndTime,
                   existingAppointments[i].startDateTime,
                   existingAppointments[i].endDateTime)

RECURSIVE SlotLoopMutStrict(_, _, _, _, _)
SlotLoopMutStrict(date, currentMinutes, endMinutes, busyPeriods, existingAppointments) ==
  IF currentMinutes + SlotMinutes < endMinutes
  THEN LET slotHour == currentMinutes \div 60
           slotMinute == currentMinutes % 60
           nextMinutes == currentMinutes + SlotMinutes
           nextHour == nextMinutes \div 60
           nextMinute == nextMinutes % 60
           slotStartISO == [date |-> date, h |-> slotHour, m |-> slotMinute]
           slotEndISO == [date |-> date, h |-> nextHour, m |-> nextMinute]
           slot == [time |-> <<formatTimeDisplay(slotHour, slotMinute),
                               formatTimeDisplay(nextHour, nextMinute)>>,
                    startTime |-> <<slotHour, slotMinute>>,
                    endTime |-> <<nextHour, nextMinute>>,
                    startISO |-> slotStartISO,
                    endISO |-> slotEndISO]
       IN <<slot>> \o SlotLoopMutStrict(date, currentMinutes + SlotMinutes,
                                        endMinutes, busyPeriods, existingAppointments)
  ELSE <<>>

RECURSIVE SlotLoop(_, _, _, _, _)
SlotLoop(date, currentMinutes, endMinutes, busyPeriods, existingAppointments) ==
  IF currentMinutes + SlotMinutes <= endMinutes
  THEN LET slotHour == currentMinutes \div 60
           slotMinute == currentMinutes % 60
           nextMinutes == currentMinutes + SlotMinutes
           nextHour == nextMinutes \div 60
           nextMinute == nextMinutes % 60
           slotStartISO == [date |-> date, h |-> slotHour, m |-> slotMinute]
           slotEndISO == [date |-> date, h |-> nextHour, m |-> nextMinute]
           isAvailable == ~isSlotConflicting(slotStartISO, slotEndISO,
                                             busyPeriods, existingAppointments)
           slot == [time |-> <<formatTimeDisplay(slotHour, slotMinute),
                               formatTimeDisplay(nextHour, nextMinute)>>,
                    startTime |-> <<slotHour, slotMinute>>,
                    endTime |-> <<nextHour, nextMinute>>,
                    startISO |-> slotStartISO,
                    endISO |-> slotEndISO]
       IN (IF isAvailable THEN <<slot>> ELSE <<>>)
            \o SlotLoop(date, currentMinutes + SlotMinutes, endMinutes,
                        busyPeriods, existingAppointments)
  ELSE <<>>

generateAvailableSlots(date, startTime, endTime, busyPeriods, existingAppointments) ==
  SlotLoop(date, startTime[1] * 60 + startTime[2], endTime[1] * 60 + endTime[2],
           busyPeriods, existingAppointments)

-----------------------------------------------------------------------------
(* The stores and the environment *)

Weekdays == {"sunday", "monday", "tuesday", "wednesday", "thursday", "friday", "saturday"}

NoEntry == [present |-> FALSE, available |-> FALSE, start |-> <<>>, end |-> <<>>]

DayOff == [present |-> TRUE, available |-> FALSE, start |-> <<>>, end |-> <<>>]

Working(start, end) == [present |-> TRUE, available |-> TRUE, start |-> start, end |-> end]

\* a Doctor document (schema: unnamed/part_001) with its Friday and Saturday
\* entries; the other days are days off
DoctorDoc(doctorId, calendarId, friday, saturday) ==
  [doctorId |-> doctorId, name |-> "Dr", calendarId |-> calendarId,
   availability |-> [w \in Weekdays |->
      IF w = "friday" THEN friday
      ELSE IF w = "saturday" THEN saturday
      ELSE DayOff]]

\* Doctor.findOne({ doctorId })
FindDoctor(doctorId) == {d \in doctors : d.doctorId = doctorId}

\* Patient.findOne({ $or: [{ email }, { phone }] }): the position of the first
\* matching document, 0 when there is none.  An undefined value in the filter
\* is sent as null and matches a document that lacks the field.
FindPatient(email, phone) ==
  LET hits == {i \in 1..Len(patients) :
                 patients[i].email = email \/ patients[i].phone = phone}
  IN IF hits = {} THEN 0 ELSE CHOOSE i \in hits : \A j \in hits : i <= j

\* Appointment.findOne({ appointmentId })
FindAppointment(appointmentId) ==
  {i \in 1..Len(appointments) : appointments[i].appointmentId = appointmentId}

-----------------------------------------------------------------------------
(* POST /appointments/book *)

Procs == {"r1", "r2"}

\* googleEvent.id of the placeholder { id: 'manual-' + Date.now() }; the ids of
\* real calendar events are 1, 2, ...
ManualId == 0

NoDoctor == [doctorId |-> "", name |-> "", calendarId |-> "",
             availability |-> [w \in Weekdays |-> NoEntry]]

NoPatient == [patientId |-> 0, name |-> "", email |-> "", phone |-> ""]

NoISO == [date |-> <<0, 0>>, h |-> 0, m |-> 0]

NoBody == [doctorId |-> "", patientName |-> "", patientEmail |-> "",
           patientPhone |-> "", date |-> <<0, 0>>, timeSlot |-> <<>>, key |-> ""]

NoResponse == [status |-> 0, error |-> "", emailStatus |-> "null",
               calendarEvent |-> "null"]

\* history: the stores as they were when the request arrived; (calendar)
\* whether createEvent has returned ("created") or thrown ("failed");
\* (offered) whether the request asks for a slot that the availability query
\* answered last has listed for the same doctor and date; (refused) whether
\* that query has answered for the same doctor and date without listing it
NoStores == [appointments |-> <<>>, calendarEvents |-> {}, sentEmails |-> {},
             patients |-> <<>>]

Stores == [appointments |-> appointments, calendarEvents |-> calendarEvents,
           sentEmails |-> sentEmails, patients |-> patients]

IdleReq == [pc |-> "idle", body |-> NoBody, doctor |-> NoDoctor,
            patient |-> NoPatient, found |-> 0,
            startDateTimeISO |-> NoISO, endDateTimeISO |-> NoISO,
            googleEvent |-> [id |-> ManualId, htmlLink |-> FALSE],
            calendar |-> "none",
            appointmentId |-> 0, emailStatus |-> "null", res |-> NoResponse,
            before |-> NoStores, offered |-> FALSE, refused |-> FALSE]

IdleQry == [pc |-> "idle", doctorId |-> "", date |-> <<0, 0>>,
            doctor |-> NoDoctor, dayAvailability |-> NoEntry,
            busyPeriods |-> <<>>, reported |-> <<>>, freeBusy |-> "none",
            freeBusyCalls |-> 0, findCalls |-> 0,
            res |-> [status |-> 0, error |-> "", availableSlots |-> <<>>]]

NoContact == [name |-> "", email |-> "", phone |-> ""]

NoAllStores == [doctors |-> {}, patients |-> <<>>, appointments |-> <<>>,
                calendarEvents |-> {}]

AllStores == [doctors |-> doctors, patients |-> patients,
              appointments |-> appointments, calendarEvents |-> calendarEvents]

\* the answer of the handler of a single-step route, with the request it
\* answers: (op) the route, (id) the appointment or patient id in the path,
\* (doctorId) the doctor id in the path or the body, (key) the API key the
\* request carried, (body) the contact fields of its body, (patient) the
\* patient record in the answer; history: (before) the stores as they were
\* when the request arrived
NoOut == [op |-> "", id |-> 0, doctorId |-> "", status |-> 0, key |-> "",
          body |-> NoContact, patient |-> NoPatient, before |-> NoAllStores]

Answer(op, id, key, body, status, patient) ==
  [op |-> op, id |-> id, doctorId |-> "", status |-> status, key |-> key,
   body |-> body, patient |-> patient, before |-> AllStores]

AnswerDoctor(op, doctorId, key, status) ==
  [Answer(op, 0, key, NoContact, status, NoPatient) EXCEPT !.doctorId = doctorId]

\* history of the query: (reported) the busy list that the free/busy response
\* carried for the doctor's calendar; (freeBusy) whether getFreeBusy has
\* returned ("answered") or thrown ("failed"); (freeBusyCalls, findCalls) the
\* number of calls made to getFreeBusy and to Appointment.find
ForgetQry == IF qry.pc = "done" THEN IdleQry ELSE qry

Offered(body) ==
  /\ qry.pc = "done" /\ qry.res.status = 200
  /\ qry.doctorId = body.doctorId /\ qry.date = body.date
  /\ \E i \in 1..Len(qry.res.availableSlots) :
       qry.res.availableSlots[i].time = body.timeSlot

Refused(body) ==
  /\ qry.pc = "done" /\ qry.res.status = 200
  /\ qry.doctorId = body.doctorId /\ qry.date = body.date
  /\ \A i \in 1..Len(qry.res.availableSlots) :
       qry.res.availableSlots[i].time # body.timeSlot

InFlight == {p \in Procs : req[p].pc \notin {"idle", "done"}}

\* a handler that has answered holds nothing: its record returns to idle when
\* the next request arrives
ForgetReq(except) ==
  [x \in Procs |-> IF x \notin except /\ req[x].pc = "done" THEN IdleReq ELSE req[x]]

Respond(r, status, error) ==
  [r EXCEPT !.pc = "done",
            !.res = [status |-> status, error |-> error,
                     emailStatus |-> "null", calendarEvent |-> "null"]]

\* res.json({ success: true, ..., emailStatus, calendarEvent, ... })
SuccessResponse(r) ==
  [r EXCEPT !.pc = "done",
            !.res = [status |-> 200, error |-> "",
                     emailStatus |-> r.emailStatus,
                     calendarEvent |->
                       IF r.googleEvent.htmlLink THEN "link" ELSE "null"]]

requireApiKey(key) ==
  \/ env.API_KEY = ""
  \/ (key # "" /\ key = env.API_KEY)

\* timeSlot.match(/(\d{2}):(\d{2})\s*(AM|PM)/i): the first display text of the
\* label that carries a period, <<>> when there is none
TimeMatch(timeSlot) ==
  LET hits == {i \in 1..Len(timeSlot) : timeSlot[i].period \in {"AM", "PM"}}
  IN IF hits = {} THEN <<>>
     ELSE <<timeSlot[CHOOSE i \in hits : \A j \in hits : i <= j]>>

ParseEndMutWholeSlot(date, timeMatch) ==
  LET hour0 == timeMatch.hh
      hour == IF timeMatch.period = "PM" /\ hour0 < 12 THEN hour0 + 12
              ELSE IF timeMatch.period = "AM" /\ hour0 = 12 THEN 0
              ELSE hour0
  IN [date |-> date, h |-> hour + 1, m |-> timeMatch.mm]

\* the start instant that book derives from the matched display text
ParseStart(date, timeMatch) ==
  LET hour0 == timeMatch.hh
      hour == IF timeMatch.period = "PM" /\ hour0 < 12 THEN hour0 + 12
              ELSE IF timeMatch.period = "AM" /\ hour0 = 12 THEN 0
              ELSE hour0
  IN [date |-> date, h |-> hour, m |-> timeMatch.mm]

\* the end instant that book derives from the matched display text
ParseEnd(date, timeMatch) ==
  LET hour0 == timeMatch.hh
      hour == IF timeMatch.period = "PM" /\ hour0 < 12 THEN hour0 + 12
              ELSE IF timeMatch.period = "AM" /\ hour0 = 12 THEN 0
              ELSE hour0
  IN [date |-> date,
      h |-> hour + (IF timeMatch.mm = 30 THEN 1 ELSE 0),
      m |-> IF timeMatch.mm = 30 THEN 0 ELSE 30]

ConflictingMutSameStart(appts, doctorId, startISO, endISO) ==
  {i \in 1..Len(appts) :
     /\ appts[i].doctorId = doctorId
     /\ appts[i].status # "cancelled"
     /\ appts[i].startDateTime = DateGetTime(startISO)}

\* Appointment.findOne({ doctorId, status: {$ne: 'cancelled'},
\*   startDateTime: {$lt: end}, endDateTime: {$gt: start} })
ConflictingAppointment(appts, doctorId, startISO, endISO) ==
  {i \in 1..Len(appts) :
     /\ appts[i].doctorId = doctorId
     /\ appts[i].status # "cancelled"
     /\ NumLt(appts[i].startDateTime, DateGetTime(endISO))
     /\ NumLt(DateGetTime(startISO), appts[i].endDateTime)}

\* the request arrives: requireApiKey, then the field checks that run before
\* the first await
BookReceive(p, Bodies) ==
  /\ req[p].pc \in {"idle", "done"}
  /\ Len(appointments) + Cardinality(InFlight) < MaxAppts
  /\ Cardinality(calendarEvents) + Cardinality(InFlight) < MaxAppts
  /\ \E body \in Bodies :
       LET r == [IdleReq EXCEPT !.body = body, !.before = Stores,
                                !.offered = Offered(body),
                                !.refused = Refused(body)] IN
       req' = [ForgetReq({}) EXCEPT ![p] =
         IF ~requireApiKey(body.key)
         THEN Respond(r, 401, "Unauthorized")
         ELSE IF \/ body.doctorId = "" \/ body.patientName = ""
                 \/ body.date = <<0, 0>> \/ body.timeSlot = <<>>
         THEN Respond(r, 400, "Missing required fields")
         ELSE IF body.patientEmail = "" /\ body.patientPhone = ""
         THEN Respond(r, 400, "Either email or phone is required")
         ELSE [r EXCEPT !.pc = "findDoctor"]]
  /\ qry' = ForgetQry
  /\ out' = NoOut
  /\ UNCHANGED <<doctors, patients, appointments, calendarEvents, sentEmails,
                 env, busyCalendar, otpVars, nextId, fin, fout>>

BookFindDoctorMutUpsertFirst(p) ==
  /\ req[p].pc = "findDoctor"
  /\ LET hit == FindDoctor(req[p].body.doctorId) IN
       /\ req' = [req EXCEPT ![p] =
            IF hit = {} THEN Respond(@, 404, "Doctor not found")
            ELSE [@ EXCEPT !.pc = "findPatient", !.doctor = CHOOSE d \in hit : TRUE]]
       /\ patients' = IF hit = {}
                      THEN Append(patients,
                             [patientId |-> nextId.patient,
                              name |-> req[p].body.patientName,
                              email |-> req[p].body.patientEmail,
                              phone |-> req[p].body.patientPhone])
                      ELSE patients
  /\ UNCHANGED <<doctors, appointments, calendarEvents, sentEmails,
                 env, busyCalendar, otpVars, qry, out, nextId, fin, fout>>

\* const doctor = await Doctor.findOne({ doctorId })
BookFindDoctor(p) ==
  /\ req[p].pc = "findDoctor"
  /\ LET hit == FindDoctor(req[p].body.doctorId) IN
       req' = [req EXCEPT ![p] =
         IF hit = {} THEN Respond(@, 404, "Doctor not found")
         ELSE [@ EXCEPT !.pc = "findPatient", !.doctor = CHOOSE d \in hit : TRUE]]
  /\ UNCHANGED <<doctors, patients, appointments, calendarEvents, sentEmails,
                 env, busyCalendar, otpVars, qry, out, nextId, fin, fout>>

\* let patient = await Patient.findOne({ $or: [...] })
BookFindPatient(p) ==
  /\ req[p].pc = "findPatient"
  /\ LET i == FindPatient(req[p].body.patientEmail, req[p].body.patientPhone) IN
       req' = [req EXCEPT ![p] =
         [@ EXCEPT !.pc = "savePatient", !.found = i,
                   !.patient = IF i = 0 THEN NoPatient ELSE patients[i]]]
  /\ UNCHANGED <<doctors, patients, appointments, calendarEvents, sentEmails,
                 env, busyCalendar, otpVars, qry, out, nextId, fin, fout>>

\* await patient.save(), then the time-slot parsing that follows it
BookSavePatient(p) ==
  /\ req[p].pc = "savePatient"
  /\ LET r == req[p]
         b == r.body
         saved == IF r.found = 0
                  THEN [patientId |-> nextId.patient, name |-> b.patientName,
                        email |-> b.patientEmail, phone |-> b.patientPhone]
                  ELSE [r.patient EXCEPT
                          !.name = b.patientName,
                          !.email = IF b.patientEmail # "" THEN b.patientEmail ELSE @,
                          !.phone = IF b.patientPhone # "" THEN b.patientPhone ELSE @]
         timeMatch == TimeMatch(b.timeSlot)
     IN \/ /\ patients' = IF r.found = 0 THEN Append(patients, saved)
                          ELSE [patients EXCEPT ![r.found] =
                                  [@ EXCEPT !.name = saved.name,
                                            !.email = IF b.patientEmail # ""
                                                      THEN saved.email ELSE @,
                                            !.phone = IF b.patientPhone # ""
                                                      THEN saved.phone ELSE @]]
           /\ nextId' = IF r.found = 0
                        THEN [nextId EXCEPT !.patient = @ + 1] ELSE nextId
           /\ req' = [req EXCEPT ![p] =
                IF timeMatch = <<>>
                THEN Respond([r EXCEPT !.patient = saved], 400,
                             "Invalid time slot format")
                ELSE [r EXCEPT !.pc = "findConflict", !.patient = saved,
                        !.startDateTimeISO = ParseStart(b.date, timeMatch[1]),
                        !.endDateTimeISO = ParseEnd(b.date, timeMatch[1])]]
        \/ \* the write fails
           /\ req' = [req EXCEPT ![p] = Respond(r, 500, "patient save failed")]
           /\ UNCHANGED <<patients, nextId>>
  /\ UNCHANGED <<doctors, appointments, calendarEvents, sentEmails,
                 env, busyCalendar, otpVars, qry, out, fin, fout>>

\* calendar.events.insert(calendarId, eventObj): from then on the calendar is
\* busy from the start to the end of the event; the free/busy answer lists its
\* busy intervals in the order of their start, each once
RECURSIVE InsertBusy(_, _)
InsertBusy(busy, interval) ==
  IF busy = <<>> THEN <<interval>>
  ELSE IF Head(busy) = interval THEN busy
  ELSE IF \/ interval.start < Head(busy).start
          \/ (interval.start = Head(busy).start /\ interval.end < Head(busy).end)
  THEN <<interval>> \o busy
  ELSE <<Head(busy)>> \o InsertBusy(Tail(busy), interval)

EventInserted(calendarId, startISO, endISO) ==
  [c \in DOMAIN busyCalendar |->
     IF c = calendarId
     THEN InsertBusy(busyCalendar[c], [start |-> DateGetTime(startISO),
                                       end |-> DateGetTime(endISO)])
     ELSE busyCalendar[c]]

BookFindConflictMutEventFirst(p) ==
  /\ req[p].pc = "findConflict"
  /\ LET r == req[p] IN
       /\ req' = [req EXCEPT ![p] =
            IF \/ DateGetTime(r.startDateTimeISO) = NaN
               \/ DateGetTime(r.endDateTimeISO) = NaN
            THEN Respond(r, 500, "Cast to date failed")
            ELSE IF ConflictingAppointment(appointments, r.doctor.doctorId,
                      r.startDateTimeISO, r.endDateTimeISO) # {}
            THEN Respond(r, 409, "This time slot is no longer available")
            ELSE [r EXCEPT !.pc = "createEvent"]]
       /\ calendarEvents' = calendarEvents \cup
            {[id |-> nextId.event, calendarId |-> r.doctor.calendarId]}
       /\ busyCalendar' = EventInserted(r.doctor.calendarId,
                                        r.startDateTimeISO, r.endDateTimeISO)
       /\ nextId' = [nextId EXCEPT !.event = @ + 1]
  /\ UNCHANGED <<doctors, patients, appointments, sentEmails,
                 env, otpVars, qry, out, fin, fout>>

\* const conflictingAppointment = await Appointment.findOne({...})
BookFindConflict(p) ==
  /\ req[p].pc = "findConflict"
  /\ LET r == req[p] IN
       req' = [req EXCEPT ![p] =
         IF \/ DateGetTime(r.startDateTimeISO) = NaN
            \/ DateGetTime(r.endDateTimeISO) = NaN
         THEN Respond(r, 500, "Cast to date failed")
         ELSE IF ConflictingAppointment(appointments, r.doctor.doctorId,
                   r.startDateTimeISO, r.endDateTimeISO) # {}
         THEN Respond(r, 409, "This time slot is no longer available")
         ELSE [r EXCEPT !.pc = "createEvent"]]
  /\ UNCHANGED <<doctors, patients, appointments, calendarEvents, sentEmails,
                 env, busyCalendar, otpVars, qry, out, nextId, fin, fout>>

BookCreateEventMutAbort(p) ==
  /\ req[p].pc = "createEvent"
  /\ LET r == req[p] IN
       \/ /\ r.doctor.calendarId # ""
          /\ calendarEvents' = calendarEvents \cup
               {[id |-> nextId.event, calendarId |-> r.doctor.calendarId]}
          /\ busyCalendar' = EventInserted(r.doctor.calendarId,
                                           r.startDateTimeISO, r.endDateTimeISO)
          /\ nextId' = [nextId EXCEPT !.event = @ + 1]
          /\ req' = [req EXCEPT ![p] =
               [r EXCEPT !.pc = "saveAppointment", !.calendar = "created",
                         !.googleEvent = [id |-> nextId.event, htmlLink |-> TRUE]]]
       \/ /\ req' = [req EXCEPT ![p] =
               Respond([r EXCEPT !.calendar = "failed"], 500, "calendar error")]
          /\ UNCHANGED <<calendarEvents, busyCalendar, nextId>>
  /\ UNCHANGED <<doctors, patients, appointments, sentEmails,
                 env, otpVars, qry, out, fin, fout>>

\* googleEvent = await createEvent(doctor.calendarId, eventObj), or the catch
BookCreateEvent(p) ==
  /\ req[p].pc = "createEvent"
  /\ LET r == req[p] IN
       \/ /\ r.doctor.calendarId # ""
          /\ calendarEvents' = calendarEvents \cup
               {[id |-> nextId.event, calendarId |-> r.doctor.calendarId]}
          /\ busyCalendar' = EventInserted(r.doctor.calendarId,
                                           r.startDateTimeISO, r.endDateTimeISO)
          /\ nextId' = [nextId EXCEPT !.event = @ + 1]
          /\ req' = [req EXCEPT ![p] =
               [r EXCEPT !.pc = "saveAppointment", !.calendar = "created",
                         !.googleEvent = [id |-> nextId.event, htmlLink |-> TRUE]]]
       \/ /\ req' = [req EXCEPT ![p] =
               [r EXCEPT !.pc = "saveAppointment", !.calendar = "failed"]]
          /\ UNCHANGED <<calendarEvents, busyCalendar, nextId>>
  /\ UNCHANGED <<doctors, patients, appointments, sentEmails,
                 env, otpVars, qry, out, fin, fout>>

\* the required paths of AppointmentSchema that book can leave undefined
AppointmentSchemaValid(doc) == doc.patientEmail # ""

\* await appointment.save()
BookSaveAppointment(p) ==
  /\ req[p].pc = "saveAppointment"
  /\ LET r == req[p]
         appointment ==
           [appointmentId |-> nextId.appointment,
            doctorId |-> r.doctor.doctorId,
            patientId |-> r.patient.patientId,
            patientEmail |-> r.body.patientEmail,
            date |-> r.body.date,
            timeSlot |-> r.body.timeSlot,
            startDateTime |-> DateGetTime(r.startDateTimeISO),
            endDateTime |-> DateGetTime(r.endDateTimeISO),
            googleEventId |-> r.googleEvent.id,
            status |-> "confirmed",
            paymentStatus |-> "pending"]
     IN \/ /\ AppointmentSchemaValid(appointment)
           /\ appointments' = Append(appointments, appointment)
           /\ nextId' = [nextId EXCEPT !.appointment = @ + 1]
           /\ req' = [req EXCEPT ![p] =
                IF r.patient.email # ""
                THEN [r EXCEPT !.pc = "sendEmail",
                               !.appointmentId = appointment.appointmentId]
                ELSE SuccessResponse(
                       [r EXCEPT !.appointmentId = appointment.appointmentId])]
        \/ \* validation (before any write) or the write fails
           /\ req' = [req EXCEPT ![p] =
                Respond(r, 500, IF AppointmentSchemaValid(appointment)
                                THEN "appointment save failed"
                                ELSE "Appointment validation failed")]
           /\ UNCHANGED <<appointments, nextId>>
  /\ UNCHANGED <<doctors, patients, calendarEvents, sentEmails,
                 env, busyCalendar, otpVars, qry, out, fin, fout>>

\* getTransporter() throws when a credential is missing
getTransporter ==
  env.SMTP_HOST # "" /\ env.SMTP_USER # "" /\ env.SMTP_PASS # ""

\* the results of sendConfirmationEmail({ toEmail, ... }): "skipped",
\* "success", or "error" when it throws
sendConfirmationEmail(toEmail) ==
  IF toEmail = "" THEN {"skipped"}
  ELSE IF env.SMTP_HOST = "" THEN {"skipped"}
  ELSE IF ~getTransporter THEN {"error"}
  ELSE {"success", "error"}

BookSendEmailMutAbort(p) ==
  /\ req[p].pc = "sendEmail"
  /\ LET r == req[p] IN
     \E result \in sendConfirmationEmail(r.patient.email) :
       /\ sentEmails' = IF result = "success"
                        THEN sentEmails \cup {[to |-> r.patient.email,
                                               appointmentId |-> r.appointmentId]}
                        ELSE sentEmails
       /\ req' = [req EXCEPT ![p] =
            IF result = "error"
            THEN Respond([r EXCEPT !.emailStatus = result], 500, "mail error")
            ELSE SuccessResponse([r EXCEPT !.emailStatus = result])]
  /\ UNCHANGED <<doctors, patients, appointments, calendarEvents,
                 env, busyCalendar, otpVars, qry, out, nextId, fin, fout>>

\* emailStatus = await sendConfirmationEmail(...), or the catch; then res.json
BookSendEmail(p) ==
  /\ req[p].pc = "sendEmail"
  /\ LET r == req[p] IN
     \E result \in sendConfirmationEmail(r.patient.email) :
       /\ sentEmails' = IF result = "success"
                        THEN sentEmails \cup {[to |-> r.patient.email,
                                               appointmentId |-> r.appointmentId]}
                        ELSE sentEmails
       /\ req' = [req EXCEPT ![p] =
            SuccessResponse([r EXCEPT !.emailStatus = result])]
  /\ UNCHANGED <<doctors, patients, appointments, calendarEvents,
                 env, busyCalendar, otpVars, qry, out, nextId, fin, fout>>

-----------------------------------------------------------------------------
(* POST /appointments/:appointmentId/cancel *)

CancelMutToggle(appointmentId, key) ==
  /\ IF ~requireApiKey(key)
     THEN /\ out' = Answer("cancel", appointmentId, key, NoContact, 401, NoPatient)
          /\ UNCHANGED appointments
     ELSE LET hit == FindAppointment(appointmentId) IN
          IF hit = {}
          THEN /\ out' = Answer("cancel", appointmentId, key, NoContact, 404, NoPatient)
               /\ UNCHANGED appointments
          ELSE /\ appointments' =
                    [appointments EXCEPT ![CHOOSE i \in hit : TRUE].status =
                       IF @ = "cancelled" THEN "confirmed" ELSE "cancelled"]
               /\ out' = Answer("cancel", appointmentId, key, NoContact, 200, NoPatient)
  /\ req' = ForgetReq({})
  /\ qry' = ForgetQry
  /\ UNCHANGED <<doctors, patients, calendarEvents, sentEmails,
                 env, busyCalendar, otpVars, nextId, fin, fout>>

\* appointment.status = 'cancelled'; await appointment.save()
Cancel(appointmentId, key) ==
  /\ IF ~requireApiKey(key)
     THEN /\ out' = Answer("cancel", appointmentId, key, NoContact, 401, NoPatient)
          /\ UNCHANGED appointments
     ELSE LET hit == FindAppointment(appointmentId) IN
          IF hit = {}
          THEN /\ out' = Answer("cancel", appointmentId, key, NoContact, 404, NoPatient)
               /\ UNCHANGED appointments
          ELSE /\ appointments' =
                    [appointments EXCEPT ![CHOOSE i \in hit : TRUE].status = "cancelled"]
               /\ out' = Answer("cancel", appointmentId, key, NoContact, 200, NoPatient)
  /\ req' = ForgetReq({})
  /\ qry' = ForgetQry
  /\ UNCHANGED <<doctors, patients, calendarEvents, sentEmails,
                 env, busyCalendar, otpVars, nextId, fin, fout>>

\* the second handler registered for the same path (api.js:1844): no
\* requireApiKey; calendar.events.delete throws inside its own try (the name
\* calendar is not declared in api.js); Appointment.deleteOne
CancelHardDelete(appointmentId, key) ==
  /\ LET hit == FindAppointment(appointmentId) IN
       IF hit = {}
       THEN /\ out' = Answer("cancel", appointmentId, key, NoContact, 404, NoPatient)
            /\ UNCHANGED appointments
       ELSE /\ appointments' =
                 SelectSeq(appointments, LAMBDA a : a.appointmentId # appointmentId)
            /\ out' = Answer("cancel", appointmentId, key, NoContact, 200, NoPatient)
  /\ req' = ForgetReq({})
  /\ qry' = ForgetQry
  /\ UNCHANGED <<doctors, patients, calendarEvents, sentEmails,
                 env, busyCalendar, otpVars, nextId, fin, fout>>

\* the handlers of POST /appointments/:id/cancel in the order of registration
CancelHandlers == <<"cancel", "cancelHardDelete">>

MatchedMutLast(handlers) == handlers[Len(handlers)]

\* the router runs the first registered handler whose path matches; a handler
\* that answers without calling next() ends the dispatch
Matched(handlers) == handlers[1]

CancelRequest(appointmentId, key) ==
  IF Matched(CancelHandlers) = "cancel"
  THEN Cancel(appointmentId, key)
  ELSE CancelHardDelete(appointmentId, key)

-----------------------------------------------------------------------------
(* POST /patients/register *)

\* Patient.findOne({ $or: [...(email ? [{ email }] : []),
\*                          ...(phone ? [{ phone }] : [])] })
FindRegistered(email, phone) ==
  LET hits == {i \in 1..Len(patients) :
                 \/ (email # "" /\ patients[i].email = email)
                 \/ (phone # "" /\ patients[i].phone = phone)}
  IN IF hits = {} THEN 0 ELSE CHOOSE i \in hits : \A j \in hits : i <= j

Register(body, key) ==
  /\ IF ~requireApiKey(key)
     THEN /\ out' = Answer("register", 0, key, body, 401, NoPatient)
          /\ UNCHANGED <<patients, nextId>>
     ELSE IF body.name = "" \/ (body.email = "" /\ body.phone = "")
     THEN /\ out' = Answer("register", 0, key, body, 400, NoPatient)
          /\ UNCHANGED <<patients, nextId>>
     ELSE LET i == FindRegistered(body.email, body.phone)
              patient == [patientId |-> nextId.patient, name |-> body.name,
                          email |-> body.email, phone |-> body.phone]
          IN IF i # 0
             THEN /\ out' = Answer("register", 0, key, body, 409, patients[i])
                  /\ UNCHANGED <<patients, nextId>>
             ELSE \/ /\ patients' = Append(patients, patient)
                     /\ nextId' = [nextId EXCEPT !.patient = @ + 1]
                     /\ out' = Answer("register", 0, key, body, 200, patient)
                  \/ \* the write fails
                     /\ out' = Answer("register", 0, key, body, 500, NoPatient)
                     /\ UNCHANGED <<patients, nextId>>
  /\ req' = ForgetReq({})
  /\ qry' = ForgetQry
  /\ UNCHANGED <<doctors, appointments, calendarEvents, sentEmails,
                 env, busyCalendar, otpVars, fin, fout>>

-----------------------------------------------------------------------------
(* The doctor, patient and appointment routes of unnamed/part_000 *)

\* the document after an update that sets the fields of `update`
Assign(doc, update) ==
  [f \in DOMAIN doc |-> IF f \in DOMAIN update THEN update[f] ELSE doc[f]]

\* POST /doctors (requireApiKey): create the doctor or Object.assign the
\* payload onto the stored one
PostDoctors(payload, key) ==
  /\ IF ~requireApiKey(key)
     THEN /\ out' = AnswerDoctor("postDoctors", payload.doctorId, key, 401)
          /\ UNCHANGED doctors
     ELSE /\ doctors' = {d \in doctors : d.doctorId # payload.doctorId}
                          \cup {IF FindDoctor(payload.doctorId) = {} THEN payload
                                ELSE Assign(CHOOSE d \in FindDoctor(payload.doctorId) : TRUE,
                                            payload)}
          /\ out' = AnswerDoctor("postDoctors", payload.doctorId, key, 200)
  /\ req' = ForgetReq({})
  /\ qry' = ForgetQry
  /\ UNCHANGED <<patients, appointments, calendarEvents, sentEmails,
                 env, busyCalendar, otpVars, nextId, fin, fout>>

\* PUT /doctor/:doctorId (requireApiKey): Doctor.findOneAndUpdate
PutDoctor(doctorId, update, key) ==
  /\ IF ~requireApiKey(key)
     THEN /\ out' = AnswerDoctor("putDoctor", doctorId, key, 401)
          /\ UNCHANGED doctors
     ELSE IF FindDoctor(doctorId) = {}
     THEN /\ out' = AnswerDoctor("putDoctor", doctorId, key, 404)
          /\ UNCHANGED doctors
     ELSE /\ doctors' = {IF d.doctorId = doctorId THEN Assign(d, update) ELSE d :
                           d \in doctors}
          /\ out' = AnswerDoctor("putDoctor", doctorId, key, 200)
  /\ req' = ForgetReq({})
  /\ qry' = ForgetQry
  /\ UNCHANGED <<patients, appointments, calendarEvents, sentEmails,
                 env, busyCalendar, otpVars, nextId, fin, fout>>

\* DELETE /doctor/:doctorId (requireApiKey): Doctor.findOneAndDelete
DeleteDoctor(doctorId, key) ==
  /\ IF ~requireApiKey(key)
     THEN /\ out' = AnswerDoctor("deleteDoctor", doctorId, key, 401)
          /\ UNCHANGED doctors
     ELSE IF FindDoctor(doctorId) = {}
     THEN /\ out' = AnswerDoctor("deleteDoctor", doctorId, key, 404)
          /\ UNCHANGED doctors
     ELSE /\ doctors' = {d \in doctors : d.doctorId # doctorId}
          /\ out' = AnswerDoctor("deleteDoctor", doctorId, key, 200)
  /\ req' = ForgetReq({})
  /\ qry' = ForgetQry
  /\ UNCHANGED <<patients, appointments, calendarEvents, sentEmails,
                 env, busyCalendar, otpVars, nextId, fin, fout>>

\* Patient.findOne({ patientId })
FindPatientById(patientId) ==
  {i \in 1..Len(patients) : patients[i].patientId = patientId}

\* POST /patients (no requireApiKey): create the patient, or set the name and
\* the phone of the one found by email or phone
PostPatients(body, key) ==
  /\ IF body.email = "" /\ body.phone = ""
     THEN /\ out' = Answer("postPatients", 0, key, body, 400, NoPatient)
          /\ UNCHANGED <<patients, nextId>>
     ELSE LET i == FindPatient(body.email, body.phone)
              created == [patientId |-> nextId.patient, name |-> body.name,
                          email |-> body.email, phone |-> body.phone]
              updated == [patients[i] EXCEPT
                            !.name = IF body.name # "" THEN body.name ELSE @,
                            !.phone = IF body.phone # "" THEN body.phone ELSE @]
          IN IF i = 0
             THEN /\ patients' = Append(patients, created)
                  /\ nextId' = [nextId EXCEPT !.patient = @ + 1]
                  /\ out' = Answer("postPatients", 0, key, body, 200, created)
             ELSE /\ patients' = [patients EXCEPT ![i] = updated]
                  /\ out' = Answer("postPatients", 0, key, body, 200, updated)
                  /\ UNCHANGED nextId
  /\ req' = ForgetReq({})
  /\ qry' = ForgetQry
  /\ UNCHANGED <<doctors, appointments, calendarEvents, sentEmails,
                 env, busyCalendar, otpVars, fin, fout>>

\* PUT /patient/:patientId (no requireApiKey): Patient.findOneAndUpdate
PutPatient(patientId, update, key) ==
  /\ LET hit == FindPatientById(patientId) IN
       IF hit = {}
       THEN /\ out' = Answer("putPatient", patientId, key, NoContact, 404, NoPatient)
            /\ UNCHANGED patients
       ELSE LET i == CHOOSE j \in hit : TRUE IN
            /\ patients' = [patients EXCEPT ![i] = Assign(@, update)]
            /\ out' = Answer("putPatient", patientId, key, NoContact, 200,
                             Assign(patients[i], update))
  /\ req' = ForgetReq({})
  /\ qry' = ForgetQry
  /\ UNCHANGED <<doctors, appointments, calendarEvents, sentEmails,
                 env, busyCalendar, otpVars, nextId, fin, fout>>

\* DELETE /patient/:patientId (no requireApiKey): Patient.findOneAndDelete
DeletePatient(patientId, key) ==
  /\ IF FindPatientById(patientId) = {}
     THEN /\ out' = Answer("deletePatient", patientId, key, NoContact, 404, NoPatient)
          /\ UNCHANGED patients
     ELSE /\ patients' = SelectSeq(patients, LAMBDA x : x.patientId # patientId)
          /\ out' = Answer("deletePatient", patientId, key, NoContact, 200, NoPatient)
  /\ req' = ForgetReq({})
  /\ qry' = ForgetQry
  /\ UNCHANGED <<doctors, appointments, calendarEvents, sentEmails,
                 env, busyCalendar, otpVars, nextId, fin, fout>>

\* DELETE /appointments/:appointmentId (requireApiKey):
\* Appointment.findOneAndDelete
DeleteAppointment(appointmentId, key) ==
  /\ IF ~requireApiKey(key)
     THEN /\ out' = Answer("deleteAppointment", appointmentId, key, NoContact, 401,
                           NoPatient)
          /\ UNCHANGED appointments
     ELSE IF FindAppointment(appointmentId) = {}
     THEN /\ out' = Answer("deleteAppointment", appointmentId, key, NoContact, 404,
                           NoPatient)
          /\ UNCHANGED appointments
     ELSE /\ appointments' =
               SelectSeq(appointments, LAMBDA a : a.appointmentId # appointmentId)
          /\ out' = Answer("deleteAppointment", appointmentId, key, NoContact, 200,
                           NoPatient)
  /\ req' = ForgetReq({})
  /\ qry' = ForgetQry
  /\ UNCHANGED <<doctors, patients, calendarEvents, sentEmails,
                 env, busyCalendar, otpVars, nextId, fin, fout>>

\* the required paths of the AppointmentSchema of src/Appointment.js, the
\* schema of the revision that has POST /appointments: appointmentId alone,
\* which the route always supplies; under the later schema of
\* unnamed/part_002 the document of the route lacks required paths
LegacySchemas == {"Appointment.js", "part_002"}

LegacySchemaValid(schema, doc) ==
  IF schema = "Appointment.js" THEN TRUE ELSE AppointmentSchemaValid(doc)

\* POST /appointments (requireApiKey): the booking route that takes the two
\* instants from the request.  createEvent is awaited outside any try of its
\* own, so its failure ends the request with 500; no lookup of stored
\* appointments precedes appointment.save().
PostAppointments(body, key, schema) ==
  /\ Len(appointments) < MaxAppts
  /\ Cardinality(calendarEvents) < MaxAppts
  /\ LET answer(status) ==
           [Answer("postAppointments", body.patientId, key, NoContact, status,
                   NoPatient) EXCEPT !.doctorId = body.doctorId]
         hit == FindDoctor(body.doctorId)
         doctor == CHOOSE d \in hit : TRUE
         found == FindPatientById(body.patientId)
         patient == patients[CHOOSE i \in found : TRUE]
         appointment ==
           [appointmentId |-> nextId.appointment,
            doctorId |-> body.doctorId,
            patientId |-> body.patientId,
            patientEmail |-> "",
            date |-> body.startDateTimeISO.date,
            timeSlot |-> <<>>,
            startDateTime |-> DateGetTime(body.startDateTimeISO),
            endDateTime |-> DateGetTime(body.endDateTimeISO),
            googleEventId |-> nextId.event,
            status |-> "confirmed",
            paymentStatus |-> "pending"]
         unchanged == UNCHANGED <<appointments, calendarEvents, busyCalendar,
                                  sentEmails, nextId>>
     IN IF ~requireApiKey(key)
        THEN out' = answer(401) /\ unchanged
        ELSE IF \/ body.doctorId = "" \/ body.patientId = 0
                \/ body.startDateTimeISO = NoISO \/ body.endDateTimeISO = NoISO
        THEN out' = answer(400) /\ unchanged
        ELSE IF hit = {} \/ found = {}
        THEN out' = answer(404) /\ unchanged
        ELSE \/ \* createEvent throws
                out' = answer(500) /\ unchanged
             \/ /\ doctor.calendarId # ""
                /\ calendarEvents' = calendarEvents \cup
                     {[id |-> nextId.event, calendarId |-> doctor.calendarId]}
                /\ busyCalendar' = EventInserted(doctor.calendarId,
                                                 body.startDateTimeISO,
                                                 body.endDateTimeISO)
                /\ IF /\ LegacySchemaValid(schema, appointment)
                      /\ appointment.startDateTime # NaN
                      /\ appointment.endDateTime # NaN
                   THEN \/ /\ appointments' = Append(appointments, appointment)
                           /\ nextId' = [nextId EXCEPT !.event = @ + 1,
                                                       !.appointment = @ + 1]
                           /\ \E result \in sendConfirmationEmail(patient.email) :
                                sentEmails' =
                                  IF result = "success"
                                  THEN sentEmails \cup
                                         {[to |-> patient.email,
                                           appointmentId |-> appointment.appointmentId]}
                                  ELSE sentEmails
                           /\ out' = answer(200)
                        \/ \* the write fails
                           /\ nextId' = [nextId EXCEPT !.event = @ + 1]
                           /\ out' = answer(500)
                           /\ UNCHANGED <<appointments, sentEmails>>
                   ELSE \* validation fails before any write
                        /\ nextId' = [nextId EXCEPT !.event = @ + 1]
                        /\ out' = answer(500)
                        /\ UNCHANGED <<appointments, sentEmails>>
  /\ req' = ForgetReq({})
  /\ qry' = ForgetQry
  /\ UNCHANGED <<doctors, patients, env, otpVars, fin, fout>>

-----------------------------------------------------------------------------
(* POST /doctors/:doctorId/availability *)

QryRespond(q, status, error, slots) ==
  [q EXCEPT !.pc = "done",
            !.res = [status |-> status, error |-> error, availableSlots |-> slots]]

\* /^\d{4}-\d{2}-\d{2}$/.test(date)
DateRegexTest(date) == date[1] \in 0..99 /\ date[2] \in 0..99

\* res.data of calendar.freebusy.query for one calendar
getFreeBusy(calendarId) ==
  [kind |-> "calendar#freeBusy",
   calendars |-> [c \in {calendarId} |-> [busy |-> busyCalendar[c]]]]

\* freeBusy.busy || []
BusyOf(freeBusy) ==
  IF "busy" \in DOMAIN freeBusy THEN freeBusy.busy ELSE <<>>

FindExistingAppointmentsMutAnyStatus(appts, doctorId, date) ==
  SelectSeq(appts, LAMBDA a : a.doctorId = doctorId /\ a.date = date)

\* Appointment.find({ doctorId, date, status: { $ne: 'cancelled' } })
FindExistingAppointments(appts, doctorId, date) ==
  SelectSeq(appts, LAMBDA a : /\ a.doctorId = doctorId
                              /\ a.date = date
                              /\ a.status # "cancelled")

\* the request arrives: the date checks that run before the first await
QueryReceive(doctorId, date) ==
  /\ qry.pc \in {"idle", "done"}
  /\ LET q == [IdleQry EXCEPT !.doctorId = doctorId, !.date = date] IN
       qry' = IF date = <<0, 0>> THEN QryRespond(q, 400, "Date is required", <<>>)
              ELSE IF ~DateRegexTest(date)
              THEN QryRespond(q, 400, "Invalid date format", <<>>)
              ELSE [q EXCEPT !.pc = "findDoctor"]
  /\ req' = ForgetReq({})
  /\ out' = NoOut
  /\ UNCHANGED <<doctors, patients, appointments, calendarEvents, sentEmails,
                 env, busyCalendar, otpVars, nextId, fin, fout>>

QueryFindDoctorMutCallsFirst ==
  /\ qry.pc = "findDoctor"
  /\ LET hit == FindDoctor(qry.doctorId)
         doctor == CHOOSE d \in hit : TRUE
         dayOfWeek == DayOfWeek(qry.date)
         dayAvailability == IF dayOfWeek \in DOMAIN doctor.availability
                            THEN doctor.availability[dayOfWeek] ELSE NoEntry
         q == [qry EXCEPT !.doctor = doctor, !.dayAvailability = dayAvailability]
     IN qry' =
          IF hit = {} THEN QryRespond(qry, 404, "Doctor not found", <<>>)
          ELSE IF ~dayAvailability.present THEN QryRespond(q, 200, "", <<>>)
          ELSE IF ~dayAvailability.available
          THEN QryRespond([q EXCEPT !.freeBusyCalls = 1], 200, "", <<>>)
          ELSE IF dayAvailability.start = <<>> \/ dayAvailability.end = <<>>
          THEN QryRespond(q, 400, "working hours not properly configured", <<>>)
          ELSE IF doctor.calendarId # "" THEN [q EXCEPT !.pc = "getFreeBusy"]
          ELSE [q EXCEPT !.pc = "findAppointments"]
  /\ UNCHANGED <<doctors, patients, appointments, calendarEvents, sentEmails,
                 env, busyCalendar, otpVars, req, out, nextId, fin, fout>>

\* await Doctor.findOne(...), then the checks of the day's schedule
QueryFindDoctor ==
  /\ qry.pc = "findDoctor"
  /\ LET hit == FindDoctor(qry.doctorId)
         doctor == CHOOSE d \in hit : TRUE
         dayOfWeek == DayOfWeek(qry.date)
         dayAvailability == IF dayOfWeek \in DOMAIN doctor.availability
                            THEN doctor.availability[dayOfWeek] ELSE NoEntry
         q == [qry EXCEPT !.doctor = doctor, !.dayAvailability = dayAvailability]
     IN qry' =
          IF hit = {} THEN QryRespond(qry, 404, "Doctor not found", <<>>)
          ELSE IF ~dayAvailability.present THEN QryRespond(q, 200, "", <<>>)
          ELSE IF ~dayAvailability.available THEN QryRespond(q, 200, "", <<>>)
          ELSE IF dayAvailability.start = <<>> \/ dayAvailability.end = <<>>
          THEN QryRespond(q, 400, "working hours not properly configured", <<>>)
          ELSE IF doctor.calendarId # "" THEN [q EXCEPT !.pc = "getFreeBusy"]
          ELSE [q EXCEPT !.pc = "findAppointments"]
  /\ UNCHANGED <<doctors, patients, appointments, calendarEvents, sentEmails,
                 env, busyCalendar, otpVars, req, out, nextId, fin, fout>>

\* const freeBusy = await getFreeBusy(...), or the catch
QueryGetFreeBusy ==
  /\ qry.pc = "getFreeBusy"
  /\ \E ok \in BOOLEAN :
       qry' = [qry EXCEPT !.pc = "findAppointments",
                          !.freeBusyCalls = @ + 1,
                          !.freeBusy = IF ok THEN "answered" ELSE "failed",
                          !.reported =
                             IF ok THEN getFreeBusy(qry.doctor.calendarId)
                                          .calendars[qry.doctor.calendarId].busy
                             ELSE <<>>,
                          !.busyPeriods =
                             IF ok THEN BusyOf(getFreeBusy(qry.doctor.calendarId))
                             ELSE <<>>]
  /\ UNCHANGED <<doctors, patients, appointments, calendarEvents, sentEmails,
                 env, busyCalendar, otpVars, req, out, nextId, fin, fout>>

QueryFindAppointmentsMutReserve ==
  /\ qry.pc = "findAppointments"
  /\ LET existingAppointments ==
           FindExistingAppointments(appointments, qry.doctor.doctorId, qry.date)
         availableSlots ==
           generateAvailableSlots(qry.date, qry.dayAvailability.start,
                                  qry.dayAvailability.end, qry.busyPeriods,
                                  existingAppointments)
     IN /\ qry' = [QryRespond(qry, 200, "", availableSlots) EXCEPT !.findCalls = @ + 1]
        /\ appointments' =
             IF availableSlots = <<>> \/ Len(appointments) >= MaxAppts
             THEN appointments
             ELSE Append(appointments,
                    [appointmentId |-> 0,
                     doctorId |-> qry.doctor.doctorId,
                     patientId |-> 0,
                     patientEmail |-> "",
                     date |-> qry.date,
                     timeSlot |-> availableSlots[1].time,
                     startDateTime |-> DateGetTime(availableSlots[1].startISO),
                     endDateTime |-> DateGetTime(availableSlots[1].endISO),
                     googleEventId |-> ManualId,
                     status |-> "held",
                     paymentStatus |-> "pending"])
  /\ UNCHANGED <<doctors, patients, calendarEvents, sentEmails,
                 env, busyCalendar, otpVars, req, out, nextId, fin, fout>>

\* await Appointment.find(...), generateAvailableSlots, res.json
QueryFindAppointments ==
  /\ qry.pc = "findAppointments"
  /\ LET existingAppointments ==
           FindExistingAppointments(appointments, qry.doctor.doctorId, qry.date)
         availableSlots ==
           generateAvailableSlots(qry.date, qry.dayAvailability.start,
                                  qry.dayAvailability.end, qry.busyPeriods,
                                  existingAppointments)
     IN qry' = [QryRespond(qry, 200, "", availableSlots) EXCEPT !.findCalls = @ + 1]
  /\ UNCHANGED <<doctors, patients, appointments, calendarEvents, sentEmails,
                 env, busyCalendar, otpVars, req, out, nextId, fin, fout>>

\* an awaited store query rejects: the catch of the handler answers 500
QueryThrows ==
  /\ qry.pc \in {"findDoctor", "findAppointments"}
  /\ qry' = QryRespond(qry, 500, "store error", <<>>)
  /\ UNCHANGED <<doctors, patients, appointments, calendarEvents, sentEmails,
                 env, busyCalendar, otpVars, req, out, nextId, fin, fout>>

-----------------------------------------------------------------------------
(* otpService.js: the one-time passcodes held in the process-local otpStore *)
(*                                                                         *)
(*   a string "123456"        [type |-> "string", text |-> "123456"]        *)
(*   the number 123456        [type |-> "number", text |-> "123456"]        *)
(*   Date.now()               minutes on the clock `now`                    *)
(*   a Map                    a function whose domain is the set of keys    *)
(*   null                     Null                                          *)
(*   undefined                Undefined                                     *)

OtpEmails == {"a@x", "b@x"}

Str(text) == [type |-> "string", text |-> text]

Num(text) == [type |-> "number", text |-> text]

Undefined == [type |-> "undefined", text |-> ""]

\* otp.toString()
toString(v) == [type |-> "string", text |-> v.text]

\* 5 * 60 * 1000 ms, in minutes
OTP_EXPIRY_TIME == 5

\* the literal 5 of `storedData.attempts >= 5`
MaxAttempts == 5

Null == 0 - 1

MapSet(map, key, value) ==
  [k \in DOMAIN map \cup {key} |-> IF k = key THEN value ELSE map[k]]

MapDelete(map, key) == [k \in DOMAIN map \ {key} |-> map[k]]

EmptyMap == [k \in {} |-> Null]

\* history of one email: (issued) storeOTP has been called for it; (issuedAt)
\* the clock at the last storeOTP; (failed) the verifications answered
\* "Invalid OTP" since the last storeOTP; (consumed) a verification has been
\* answered valid since the last storeOTP; (previous) the code that the last
\* storeOTP found stored for the email and replaced by another one, Str("")
\* when it found none or the same code
NoHist == [issued |-> FALSE, issuedAt |-> 0, otp |-> Str(""), failed |-> 0,
           consumed |-> FALSE, previous |-> Str("")]

NoStored == [otp |-> Str(""), expiryTime |-> 0, attempts |-> 0]

\* the answer of verifyOTP or getOTPStatus with the call it answers; history:
\* (stored) whether otpStore held an entry for the email when the call was
\* made, (before) that entry and (hist) the history of the email at that time.
\* The answer is held until the clock moves or the store is written by
\* another operation.
NoOtpOut == [op |-> "", email |-> "", otp |-> Str(""),
             stored |-> FALSE, before |-> NoStored, hist |-> NoHist,
             valid |-> FALSE, message |-> "", remainingAttempts |-> Null,
             exists |-> FALSE, remainingTime |-> Null, attempts |-> Null]

OtpCall(op, email, otp) ==
  [NoOtpOut EXCEPT !.op = op, !.email = email, !.otp = otp,
                   !.stored = email \in DOMAIN otpStore,
                   !.before = IF email \in DOMAIN otpStore THEN otpStore[email]
                              ELSE NoStored,
                   !.hist = otpHist[email]]

OtpFrame ==
  UNCHANGED <<doctors, patients, appointments, calendarEvents, sentEmails,
              env, busyCalendar, req, qry, out, nextId, fin, fout>>

storeOTPMutKeepAttempts(email, otp) ==
  /\ otpStore' = MapSet(otpStore, email,
                        [otp |-> otp, expiryTime |-> now + OTP_EXPIRY_TIME,
                         attempts |-> IF email \in DOMAIN otpStore THEN otpStore[email].attempts ELSE 0])
  /\ timers' = timers (+) SetToBag({[email |-> email, due |-> now + OTP_EXPIRY_TIME]})
  /\ otpHist' = [otpHist EXCEPT ![email] =
                   [issued |-> TRUE, issuedAt |-> now, otp |-> otp, failed |-> 0,
                    consumed |-> FALSE,
                    previous |-> IF /\ email \in DOMAIN otpStore
                                    /\ otpStore[email].otp # otp
                                 THEN otpStore[email].otp ELSE Str("")]]
  /\ otpOut' = NoOtpOut
  /\ UNCHANGED now
  /\ OtpFrame

\* storeOTP(email, otp): otpStore.set and setTimeout
storeOTP(email, otp) ==
  /\ otpStore' = MapSet(otpStore, email,
                        [otp |-> otp, expiryTime |-> now + OTP_EXPIRY_TIME,
                         attempts |-> 0])
  /\ timers' = timers (+) SetToBag({[email |-> email, due |-> now + OTP_EXPIRY_TIME]})
  /\ otpHist' = [otpHist EXCEPT ![email] =
                   [issued |-> TRUE, issuedAt |-> now, otp |-> otp, failed |-> 0,
                    consumed |-> FALSE,
                    previous |-> IF /\ email \in DOMAIN otpStore
                                    /\ otpStore[email].otp # otp
                                 THEN otpStore[email].otp ELSE Str("")]]
  /\ otpOut' = NoOtpOut
  /\ UNCHANGED now
  /\ OtpFrame

\* the callback of setTimeout(..., OTP_EXPIRY_TIME): it runs once, not before
\* its delay has passed
TimerFires(timer) ==
  /\ BagIn(timer, timers)
  /\ now >= timer.due
  /\ timers' = timers (-) SetToBag({timer})
  /\ otpStore' = IF timer.email \in DOMAIN otpStore
                 THEN MapDelete(otpStore, timer.email) ELSE otpStore
  /\ otpOut' = NoOtpOut
  /\ UNCHANGED <<now, otpHist>>
  /\ OtpFrame

ExpiredMutNever(storedData) == FALSE

\* Date.now() > storedData.expiryTime
Expired(storedData) == now > storedData.expiryTime

AttemptsExceededMutOffByOne(storedData) == storedData.attempts > MaxAttempts

\* storedData.attempts >= 5
AttemptsExceeded(storedData) == storedData.attempts >= MaxAttempts

CountFailureMutForget(storedData) == storedData

\* storedData.attempts += 1
CountFailure(storedData) == [storedData EXCEPT !.attempts = @ + 1]

ConsumeMutKeep(email) == otpStore

\* otpStore.delete(email) after a match
Consume(email) == MapDelete(otpStore, email)

\* verifyOTP(email, otp)
verifyOTP(email, otp) ==
  /\ IF email \notin DOMAIN otpStore
     THEN /\ otpOut' = [OtpCall("verifyOTP", email, otp) EXCEPT
                          !.message = "OTP not found or expired",
                          !.remainingAttempts = 0]
          /\ UNCHANGED <<otpStore, otpHist>>
     ELSE LET storedData == otpStore[email] IN
          IF Expired(storedData)
          THEN /\ otpStore' = MapDelete(otpStore, email)
               /\ otpOut' = [OtpCall("verifyOTP", email, otp) EXCEPT
                               !.message = "OTP has expired",
                               !.remainingAttempts = 0]
               /\ UNCHANGED otpHist
          ELSE IF AttemptsExceeded(storedData)
          THEN /\ otpStore' = MapDelete(otpStore, email)
               /\ otpOut' = [OtpCall("verifyOTP", email, otp) EXCEPT
                               !.message = "Maximum OTP verification attempts exceeded",
                               !.remainingAttempts = 0]
               /\ UNCHANGED otpHist
          ELSE IF otp = Undefined
          THEN \* otp.toString() throws a TypeError
               /\ otpOut' = [OtpCall("verifyOTP", email, otp) EXCEPT
                               !.message = "TypeError"]
               /\ UNCHANGED <<otpStore, otpHist>>
          ELSE IF storedData.otp # toString(otp)
          THEN /\ otpStore' = [otpStore EXCEPT ![email] = CountFailure(storedData)]
               /\ otpOut' = [OtpCall("verifyOTP", email, otp) EXCEPT
                               !.message = "Invalid OTP",
                               !.remainingAttempts =
                                  MaxAttempts - CountFailure(storedData).attempts]
               /\ otpHist' = [otpHist EXCEPT ![email].failed = @ + 1]
          ELSE /\ otpStore' = Consume(email)
               /\ otpOut' = [OtpCall("verifyOTP", email, otp) EXCEPT
                               !.valid = TRUE,
                               !.message = "OTP verified successfully"]
               /\ otpHist' = [otpHist EXCEPT ![email].consumed = TRUE]
  /\ UNCHANGED <<now, timers>>
  /\ OtpFrame

\* getOTPStatus(email): null, or the state of the entry; remainingTime is in
\* seconds
getOTPStatus(email) ==
  /\ otpOut' =
       IF email \notin DOMAIN otpStore
       THEN OtpCall("getOTPStatus", email, Str(""))
       ELSE [OtpCall("getOTPStatus", email, Str("")) EXCEPT
               !.exists = TRUE,
               !.remainingTime =
                  IF otpStore[email].expiryTime > now
                  THEN (otpStore[email].expiryTime - now) * 60 ELSE 0,
               !.attempts = otpStore[email].attempts]
  /\ UNCHANGED <<otpStore, now, timers, otpHist>>
  /\ OtpFrame

\* a minute passes
Tick(limit) ==
  /\ now < limit
  /\ now' = now + 1
  /\ otpOut' = NoOtpOut
  /\ UNCHANGED <<otpStore, timers, otpHist>>
  /\ OtpFrame

-----------------------------------------------------------------------------
(* Requests and environments of the model *)

\* the label that generateAvailableSlots prints for the slot starting at h:m
SlotLabel(h, m) ==
  <<formatTimeDisplay(h, m),
    formatTimeDisplay((h * 60 + m + SlotMinutes) \div 60, (h * 60 + m + SlotMinutes) % 60)>>

Body(doctorId, email, phone, date, timeSlot) ==
  [doctorId |-> doctorId, patientName |-> "Ann", patientEmail |-> email,
   patientPhone |-> phone, date |-> date, timeSlot |-> timeSlot, key |-> "k"]

Feb28 == <<2, 28>>

Feb29 == <<2, 29>>

Mar01 == <<3, 1>>

BadDate == <<100, 0>>

BadLabel == <<[hh |-> 9, mm |-> 0, period |-> ""]>>

\* D-1 works on Friday 09:00-10:00 and on Saturday 09:15-10:20
D1 == DoctorDoc("D-1", "cal-1", Working(<<9, 0>>, <<10, 0>>), Working(<<9, 15>>, <<10, 20>>))

D1NoCalendar == [D1 EXCEPT !.calendarId = ""]

\* D-2 has a day off on Friday and no entry for Saturday
D2 == DoctorDoc("D-2", "", DayOff, NoEntry)

\* a doctor with a calendar who works neither day
D3 == DoctorDoc("D-3", "cal-1", DayOff, NoEntry)

EnvPlain == [API_KEY |-> "", SMTP_HOST |-> "", SMTP_USER |-> "", SMTP_PASS |-> ""]

EnvMail == [API_KEY |-> "", SMTP_HOST |-> "host", SMTP_USER |-> "user", SMTP_PASS |-> "pass"]

EnvMailNoPass == [EnvMail EXCEPT !.SMTP_PASS = ""]

EnvKey == [EnvPlain EXCEPT !.API_KEY = "k"]

NoBusy == [c \in {"cal-1"} |-> <<>>]

\* the busy intervals of no calendar are followed: for the specifications in
\* which no availability query runs and getFreeBusy is never called
NoCalendars == [c \in {} |-> <<>>]

FriBusy ==
  [c \in {"cal-1"} |->
     <<[start |-> DateGetTime([date |-> Feb28, h |-> 9, m |-> 0]),
        end |-> DateGetTime([date |-> Feb28, h |-> 9, m |-> 30])]>>]

SysInit(doctorDocs, envs, busys) ==
  /\ doctors = doctorDocs
  /\ patients = <<>>
  /\ appointments = <<>>
  /\ calendarEvents = {}
  /\ sentEmails = {}
  /\ env \in envs
  /\ busyCalendar \in busys
  /\ req = [p \in Procs |-> IdleReq]
  /\ qry = IdleQry
  /\ out = NoOut
  /\ nextId = [patient |-> 1, appointment |-> 1, event |-> 1]
  /\ otpStore = EmptyMap
  /\ now = 0
  /\ timers = EmptyBag
  /\ otpOut = NoOtpOut
  /\ otpHist = [e \in OtpEmails |-> NoHist]

InitWith(doctorDocs, envs, busys) ==
  /\ SysInit(doctorDocs, envs, busys)
  /\ fin = <<>>
  /\ fout = <<>>

\* no handler is between two of its steps
Quiet == InFlight = {} /\ qry.pc \in {"idle", "done"}

BookSteps(p) ==
  \/ BookFindDoctor(p)
  \/ BookFindPatient(p)
  \/ BookSavePatient(p)
  \/ BookFindConflict(p)
  \/ BookCreateEvent(p)
  \/ BookSaveAppointment(p)
  \/ BookSendEmail(p)

QuerySteps ==
  \/ QueryFindDoctor
  \/ QueryGetFreeBusy
  \/ QueryFindAppointments

-----------------------------------------------------------------------------
(* SpecSeq: book and cancel, one request at a time *)

SeqBodies ==
  { Body("D-1", "a@x", "", Feb28, SlotLabel(9, m)) : m \in {0, 15, 30, 45} }
  \cup
  { Body("D-1", "a@x", "", Mar01, SlotLabel(9, 0)),
    Body("D-2", "a@x", "", Feb28, SlotLabel(9, 0)),
    Body("D-9", "a@x", "", Feb28, SlotLabel(9, 0)),
    Body("D-1", "a@x", "", Feb28, BadLabel),
    Body("D-1", "", "", Feb28, SlotLabel(9, 0)),
    Body("D-1", "a@x", "", Feb28, <<>>) }

InitSeq == InitWith({D1NoCalendar, D2}, {EnvPlain}, {NoBusy})

NextSeq ==
  \/ \E body \in SeqBodies : BookReceive("r1", {body}) /\ Quiet
  \/ BookSteps("r1")
  \/ \E id \in 1..MaxAppts : Cancel(id, "") /\ Quiet

SpecSeq == InitSeq /\ [][NextSeq]_vars

Max(a, b) == IF a >= b THEN a ELSE b

Min(a, b) == IF a <= b THEN a ELSE b

\* the half-open intervals [s1, e1) and [s2, e2) share an instant
IntervalsIntersect(s1, e1, s2, e2) == Max(s1, s2) < Min(e1, e2)

Active(i) == appointments[i].status # "cancelled"

\* C1: after any sequence of book and cancel requests run one at a time, no two
\* stored appointments of the same doctor that are not cancelled have
\* intersecting intervals [startDateTime, endDateTime).
C1_NoDoubleBooking ==
  \A i, j \in 1..Len(appointments) :
    (/\ i # j
     /\ appointments[i].doctorId = appointments[j].doctorId
     /\ Active(i) /\ Active(j))
    => ~IntervalsIntersect(appointments[i].startDateTime, appointments[i].endDateTime,
                           appointments[j].startDateTime, appointments[j].endDateTime)

\* two back-to-back confirmed appointments of one doctor, and a further
\* booking refused with 409
C1_Witness ==
  /\ req["r1"].pc = "done" /\ req["r1"].res.status = 409
  /\ \E i, j \in 1..Len(appointments) :
       /\ i # j /\ Active(i) /\ Active(j)
       /\ appointments[i].doctorId = appointments[j].doctorId
       /\ appointments[i].endDateTime = appointments[j].startDateTime

\* C33: every appointment that book has persisted starts strictly before it
\* ends and lasts exactly 30 minutes, whatever label the parser has accepted.
C33_BookedIntervalIsHalfHour ==
  \A i \in 1..Len(appointments) :
    /\ appointments[i].startDateTime < appointments[i].endDateTime
    /\ appointments[i].endDateTime - appointments[i].startDateTime = SlotMinutes

-----------------------------------------------------------------------------
(* SpecEffects: book and cancel, one request at a time, for a doctor with a *)
(* calendar and with the mail transport configured                          *)

EffectBodies ==
  { Body("D-1", "a@x", "", Feb28, SlotLabel(9, 0)),
    Body("D-1", "a@x", "", Feb28, SlotLabel(9, 15)),
    Body("D-1", "", "111", Feb28, SlotLabel(9, 30)),
    Body("D-1", "a@x", "", Feb28, BadLabel) }

InitEffects == InitWith({D1}, {EnvMail, EnvMailNoPass}, {NoCalendars})

NextEffects ==
  \/ \E body \in EffectBodies : BookReceive("r1", {body}) /\ Quiet
  \/ BookSteps("r1")
  \/ \E id \in 1..MaxAppts : Cancel(id, "") /\ Quiet

SpecEffects == InitEffects /\ [][NextEffects]_vars

\* the appointment that request p has saved
SavedBy(p) ==
  {i \in 1..Len(appointments) :
     appointments[i].appointmentId = req[p].appointmentId}

\* the stored appointments of the doctor that are not cancelled and whose
\* interval meets the interval request p asks for
Clashing(p) ==
  {i \in 1..Len(appointments) :
     /\ appointments[i].doctorId = req[p].doctor.doctorId
     /\ Active(i)
     /\ appointments[i].startDateTime < DateGetTime(req[p].endDateTimeISO)
     /\ appointments[i].endDateTime > DateGetTime(req[p].startDateTimeISO)}

\* C3: a booking that overlaps a non-cancelled appointment of the same doctor
\* is answered with 409 and goes no further: the appointments, the calendar
\* events and the sent emails are as they were when the request arrived.
C3_ConflictLeavesStores ==
  \A p \in Procs :
    /\ (req[p].pc = "done" /\ req[p].res.status = 409)
       => /\ appointments = req[p].before.appointments
          /\ calendarEvents = req[p].before.calendarEvents
          /\ sentEmails = req[p].before.sentEmails
          /\ req[p].appointmentId = 0
          /\ Clashing(p) # {}
    /\ (req[p].pc \in {"createEvent", "saveAppointment"})
       => Clashing(p) = {}

\* a booking refused with 409 while the calendar already holds an event and
\* an email has been sent
C3_Witness ==
  /\ req["r1"].pc = "done" /\ req["r1"].res.status = 409
  /\ calendarEvents # {} /\ sentEmails # {}

\* C4: when createEvent fails, the booking goes on: the appointment is saved
\* as confirmed with the placeholder event id and the answer is a success; the
\* only error answer after a calendar failure is a failed save.
C4_CalendarFailureKeepsBooking ==
  \A p \in Procs :
    (req[p].calendar = "failed")
    => /\ req[p].pc \in {"saveAppointment", "sendEmail", "done"}
       /\ req[p].googleEvent.id = ManualId
       /\ req[p].pc = "done" =>
            \/ /\ req[p].res.status = 200
               /\ \E i \in SavedBy(p) :
                    /\ appointments[i].status = "confirmed"
                    /\ appointments[i].googleEventId = ManualId
            \/ /\ req[p].res.status = 500
               /\ req[p].res.error \in {"appointment save failed",
                                         "Appointment validation failed"}
       /\ req[p].pc = "sendEmail" =>
            \E i \in SavedBy(p) :
              /\ appointments[i].status = "confirmed"
              /\ appointments[i].googleEventId = ManualId

\* a success answer to a booking whose calendar event could not be created
C4_Witness ==
  /\ req["r1"].pc = "done" /\ req["r1"].calendar = "failed"
  /\ req["r1"].res.status = 200
  /\ req["r1"].doctor.calendarId # ""

\* C5: when sending the confirmation email fails, the appointment stays saved
\* as confirmed and the answer is a success that carries the failure in
\* emailStatus.
C5_EmailFailureKeepsBooking ==
  \A p \in Procs :
    (req[p].pc = "done" /\ req[p].emailStatus = "error")
    => /\ req[p].res.status = 200
       /\ req[p].res.emailStatus = "error"
       /\ \E i \in SavedBy(p) : appointments[i].status = "confirmed"

\* a success answer that reports a failed email
C5_Witness ==
  /\ req["r1"].pc = "done" /\ req["r1"].emailStatus = "error"
  /\ req["r1"].res.status = 200
  /\ env.SMTP_PASS # ""

\* C6: whenever book has created a calendar event, the appointment record that
\* refers to it is already saved.
C6_EventOnlyAfterSave ==
  \A e \in calendarEvents :
    \E i \in 1..Len(appointments) : appointments[i].googleEventId = e.id

\* C17: a booking answered with a validation error (400) leaves the patients,
\* the appointments and the calendar as they were when the request arrived.
C17_ValidationErrorNoEffects ==
  \A p \in Procs :
    (req[p].pc = "done" /\ req[p].res.status = 400)
    => /\ patients = req[p].before.patients
       /\ appointments = req[p].before.appointments
       /\ calendarEvents = req[p].before.calendarEvents

\* C21: when SMTP_HOST, SMTP_USER or SMTP_PASS is not set, a booking for a
\* patient with an email is never answered with a success.
C21_MissingMailConfigFailsFast ==
  \A p \in Procs :
    (/\ req[p].pc = "done"
     /\ req[p].body.patientEmail # ""
     /\ ~getTransporter)
    => req[p].res.status # 200

\* C27: a booking that supplies a phone and no email, for a stored doctor, a
\* well-formed slot label and an interval that meets no stored appointment, is
\* answered with a success unless a store write fails: a confirmed
\* appointment is saved and no email is attempted.
C27_PhoneOnlyBookingSucceeds ==
  \A p \in Procs :
    LET b == req[p].body IN
    (/\ req[p].pc = "done"
     /\ requireApiKey(b.key)
     /\ b.patientEmail = "" /\ b.patientPhone # "" /\ b.patientName # ""
     /\ FindDoctor(b.doctorId) # {}
     /\ TimeMatch(b.timeSlot) # <<>>
     /\ ConflictingAppointment(req[p].before.appointments, b.doctorId,
                               req[p].startDateTimeISO, req[p].endDateTimeISO) = {}
     /\ req[p].res.error \notin {"patient save failed", "appointment save failed"})
    => /\ req[p].res.status = 200
       /\ req[p].res.emailStatus = "null"
       /\ \E i \in SavedBy(p) : appointments[i].status = "confirmed"

-----------------------------------------------------------------------------
(* SpecConc: two booking requests whose steps interleave *)

ConcBodies ==
  { Body("D-1", "a@x", "", Feb28, SlotLabel(9, 0)),
    Body("D-1", "a@x", "", Feb28, SlotLabel(9, 30)) }

InitConc == InitWith({D1}, {EnvPlain}, {NoCalendars})

NextConc ==
  \/ \E p \in Procs, body \in ConcBodies : BookReceive(p, {body})
  \/ \E p \in Procs : BookSteps(p)

SpecConc == InitConc /\ [][NextConc]_vars

\* C2: of two concurrent bookings of one doctor for the same interval at most
\* one succeeds, and no two appointments that are not cancelled are stored
\* for the same doctor and interval.
C2_AtMostOneSucceeds ==
  /\ \A p, q \in Procs :
       (/\ p # q
        /\ req[p].pc = "done" /\ req[q].pc = "done"
        /\ req[p].body.doctorId = req[q].body.doctorId
        /\ req[p].startDateTimeISO = req[q].startDateTimeISO
        /\ req[p].endDateTimeISO = req[q].endDateTimeISO
        /\ req[p].res.status = 200)
       => req[q].res.status # 200
  /\ \A i, j \in 1..Len(appointments) :
       (/\ i # j /\ Active(i) /\ Active(j)
        /\ appointments[i].doctorId = appointments[j].doctorId)
       => \/ appointments[i].startDateTime # appointments[j].startDateTime
          \/ appointments[i].endDateTime # appointments[j].endDateTime

\* C36: two requests that carry the same email, unknown when they arrive, and
\* whose steps interleave leave at most one patient record with that email.
C36_OnePatientPerEmail ==
  \A i, j \in 1..Len(patients) :
    (i # j /\ patients[i].email # "") => patients[i].email # patients[j].email

-----------------------------------------------------------------------------
(* SpecSlots: generateAvailableSlots on a free day *)

WindowTimes == {<<h, m>> : h \in {0, 9, 10, 11, 23}, m \in {0, 10, 15, 30, 45, 59}}

InitSlots ==
  /\ SysInit({D1, D2}, {EnvPlain}, {NoBusy})
  /\ fin \in {[op |-> "generateAvailableSlots", date |-> date,
               startTime |-> st, endTime |-> en] :
                date \in {Feb28}, st \in WindowTimes, en \in WindowTimes \cup {<<24, 0>>}}
  /\ fout = <<>>

RunGenerateSlots ==
  /\ fout = <<>>
  /\ fout' = <<generateAvailableSlots(fin.date, fin.startTime, fin.endTime, <<>>, <<>>)>>
  /\ UNCHANGED <<doctors, patients, appointments, calendarEvents, sentEmails,
                 env, busyCalendar, otpVars, req, qry, out, nextId, fin>>

\* book's parsing of the label of each generated slot
RunParseLabels ==
  /\ Len(fout) = 1
  /\ fout' = Append(fout,
       [i \in 1..Len(fout[1]) |->
          LET timeMatch == TimeMatch(fout[1][i].time) IN
            [startDateTime |-> DateGetTime(ParseStart(fin.date, timeMatch[1])),
             endDateTime |-> DateGetTime(ParseEnd(fin.date, timeMatch[1]))]])
  /\ UNCHANGED <<doctors, patients, appointments, calendarEvents, sentEmails,
                 env, busyCalendar, otpVars, req, qry, out, nextId, fin>>

NextSlots == RunGenerateSlots \/ RunParseLabels

SpecSlots == InitSlots /\ [][NextSlots]_vars

ToHM(minutes) == <<minutes \div 60, minutes % 60>>

\* C7: with no busy intervals and no appointments, the slots of a window
\* [dayStart, dayEnd) with dayStart <= dayEnd are, in order, the 30-minute
\* intervals [dayStart + 30 i, dayStart + 30 (i + 1)), as many as fit; a
\* remainder shorter than 30 minutes is dropped.
C7_SlotsTileWindow ==
  (fout # <<>> /\ fin.op = "generateAvailableSlots")
  => LET dayStart == fin.startTime[1] * 60 + fin.startTime[2]
         dayEnd == fin.endTime[1] * 60 + fin.endTime[2]
         slots == fout[1]
         day0 == DayNumber(fin.date) * 24 * 60
     IN dayStart <= dayEnd
        => /\ Len(slots) = (dayEnd - dayStart) \div 30
           /\ \A i \in 1..Len(slots) :
                /\ slots[i].startTime = ToHM(dayStart + 30 * (i - 1))
                /\ slots[i].endTime = ToHM(dayStart + 30 * i)
                /\ DateGetTime(slots[i].startISO) = day0 + dayStart + 30 * (i - 1)
                /\ DateGetTime(slots[i].endISO) = day0 + dayStart + 30 * i
                /\ dayStart + 30 * i <= dayEnd
           /\ dayEnd - (dayStart + 30 * Len(slots)) \in 0..29

\* the window 09:15-10:59 gives three slots and drops a remainder of 14 minutes
C7_Witness ==
  /\ fout # <<>> /\ fin.op = "generateAvailableSlots"
  /\ fin.startTime = <<9, 15>> /\ fin.endTime = <<10, 59>>
  /\ Len(fout[1]) = 3

\* C12: for every generated slot, whatever minute the working window starts
\* at, the interval that book parses from the slot's label is the slot's
\* interval [startISO, endISO).
C12_LabelRoundTrips ==
  (Len(fout) = 2 /\ fin.op = "generateAvailableSlots")
  => \A i \in 1..Len(fout[1]) :
       /\ fout[2][i].startDateTime = DateGetTime(fout[1][i].startISO)
       /\ fout[2][i].endDateTime = DateGetTime(fout[1][i].endISO)

-----------------------------------------------------------------------------
(* SpecSlotLoop: the while loop of generateAvailableSlots, one iteration *)
(* at a time, on a free day                                             *)

InitSlotLoop ==
  /\ SysInit({D1, D2}, {EnvPlain}, {NoBusy})
  /\ fin \in {[op |-> "generateAvailableSlots", date |-> date,
               startTime |-> st, endTime |-> en] :
                date \in {Feb28}, st \in WindowTimes, en \in WindowTimes \cup {<<24, 0>>}}
  /\ fout = <<>>

LoopFrame ==
  UNCHANGED <<doctors, patients, appointments, calendarEvents, sentEmails,
              env, busyCalendar, otpVars, req, qry, out, nextId, fin>>

\* const slots = []; let currentMinutes = startHour * 60 + startMinute
LoopEnter ==
  /\ fout = <<>>
  /\ fout' = <<[pc |-> "while",
                currentMinutes |-> fin.startTime[1] * 60 + fin.startTime[2],
                endMinutes |-> fin.endTime[1] * 60 + fin.endTime[2],
                slots |-> <<>>]>>
  /\ LoopFrame

LoopConditionMutNoWidth(currentMinutes, endMinutes) == currentMinutes <= endMinutes

\* while (currentMinutes + 30 <= endMinutes)
LoopCondition(currentMinutes, endMinutes) ==
  currentMinutes + SlotMinutes <= endMinutes

\* one run of the loop body: the slot of currentMinutes is pushed when it is
\* free (SlotLoop over a window of one slot), then currentMinutes += 30
LoopIterate ==
  /\ fout # <<>> /\ fout[1].pc = "while"
  /\ LoopCondition(fout[1].currentMinutes, fout[1].endMinutes)
  /\ fout' = <<[fout[1] EXCEPT
                  !.slots = @ \o SlotLoop(fin.date, fout[1].currentMinutes,
                                          fout[1].currentMinutes + SlotMinutes,
                                          <<>>, <<>>),
                  !.currentMinutes = @ + SlotMinutes]>>
  /\ LoopFrame

\* the loop condition is false: return slots
LoopExit ==
  /\ fout # <<>> /\ fout[1].pc = "while"
  /\ ~LoopCondition(fout[1].currentMinutes, fout[1].endMinutes)
  /\ fout' = <<[fout[1] EXCEPT !.pc = "return"]>>
  /\ LoopFrame

NextSlotLoop == LoopEnter \/ LoopIterate \/ LoopExit

\* the function runs to completion once it is called
SpecSlotLoop == InitSlotLoop /\ [][NextSlotLoop]_vars /\ WF_vars(NextSlotLoop)

Returned == fout # <<>> /\ fout[1].pc = "return"

\* C30: for every working window the loop of generateAvailableSlots comes to
\* its return, and what it returns is the empty sequence when the window is
\* zero-length, inverted or shorter than 30 minutes.
C30_SlotLoopTerminates ==
  /\ <>Returned
  /\ [](Returned
         => /\ fout[1].slots =
                 generateAvailableSlots(fin.date, fin.startTime, fin.endTime,
                                        <<>>, <<>>)
            /\ (fin.endTime[1] * 60 + fin.endTime[2])
                  - (fin.startTime[1] * 60 + fin.startTime[2]) < SlotMinutes
                 => fout[1].slots = <<>>)

\* the loop has returned nothing for the inverted window 10:00-09:00
C30_Witness ==
  /\ Returned
  /\ fin.startTime = <<10, 0>> /\ fin.endTime = <<9, 0>>
  /\ fout[1].slots = <<>>

-----------------------------------------------------------------------------
(* SpecOverlap: the overlap test of isSlotConflicting on two intervals *)

OverlapTimes == {<<9, 0>>, <<9, 15>>, <<9, 30>>, <<9, 45>>, <<10, 0>>}

InitOverlap ==
  /\ SysInit({D1, D2}, {EnvPlain}, {NoBusy})
  /\ fin \in {[op |-> "isSlotConflicting", aStart |-> a, aEnd |-> b,
               bStart |-> c, bEnd |-> d] :
                a \in OverlapTimes, b \in OverlapTimes,
                c \in OverlapTimes, d \in OverlapTimes}
  /\ fout = <<>>

ISO(date, hm) == [date |-> date, h |-> hm[1], m |-> hm[2]]

\* the interval as a busy period or a stored appointment
AsInterval(startHM, endHM) ==
  [start |-> DateGetTime(ISO(Feb28, startHM)),
   end |-> DateGetTime(ISO(Feb28, endHM)),
   startDateTime |-> DateGetTime(ISO(Feb28, startHM)),
   endDateTime |-> DateGetTime(ISO(Feb28, endHM))]

RunOverlap ==
  /\ fout = <<>>
  /\ fout' =
       <<[ab |-> isSlotConflicting(ISO(Feb28, fin.aStart), ISO(Feb28, fin.aEnd),
                                   <<>>, <<AsInterval(fin.bStart, fin.bEnd)>>),
          ba |-> isSlotConflicting(ISO(Feb28, fin.bStart), ISO(Feb28, fin.bEnd),
                                   <<>>, <<AsInterval(fin.aStart, fin.aEnd)>>),
          abBusy |-> isSlotConflicting(ISO(Feb28, fin.aStart), ISO(Feb28, fin.aEnd),
                                       <<AsInterval(fin.bStart, fin.bEnd)>>, <<>>)]>>
  /\ UNCHANGED <<doctors, patients, appointments, calendarEvents, sentEmails,
                 env, busyCalendar, otpVars, req, qry, out, nextId, fin>>

NextOverlap == RunOverlap

SpecOverlap == InitOverlap /\ [][NextOverlap]_vars

\* C9: the overlap test gives the same answer with its two intervals swapped,
\* and it is exclusive at shared endpoints: [9:00,9:30) and [9:30,10:00) do not
\* conflict, [9:00,9:30) and [9:15,9:45) do.
C9_OverlapSymmetricExclusive ==
  (fout # <<>> /\ fin.op = "isSlotConflicting")
  => /\ fout[1].ab = fout[1].ba
     /\ fout[1].ab = fout[1].abBusy
     /\ (fin.aEnd = fin.bStart /\ fin.aStart[1] * 60 + fin.aStart[2] <= fin.aEnd[1] * 60 + fin.aEnd[2]
                               /\ fin.bStart[1] * 60 + fin.bStart[2] <= fin.bEnd[1] * 60 + fin.bEnd[2])
          => ~fout[1].ab
     /\ (fin.aStart = <<9, 0>> /\ fin.aEnd = <<9, 30>>
         /\ fin.bStart = <<9, 30>> /\ fin.bEnd = <<10, 0>>) => ~fout[1].ab
     /\ (fin.aStart = <<9, 0>> /\ fin.aEnd = <<9, 30>>
         /\ fin.bStart = <<9, 15>> /\ fin.bEnd = <<9, 45>>) => fout[1].ab

\* the two examples of the claim, evaluated
C9_Witness ==
  /\ fout # <<>> /\ fin.op = "isSlotConflicting"
  /\ fin.aStart = <<9, 0>> /\ fin.aEnd = <<9, 30>>
  /\ \/ (fin.bStart = <<9, 30>> /\ fin.bEnd = <<10, 0>> /\ ~fout[1].ab)
     \/ (fin.bStart = <<9, 15>> /\ fin.bEnd = <<9, 45>> /\ fout[1].ab)

-----------------------------------------------------------------------------
(* SpecQuery: availability queries and bookings, one request at a time *)

QueryBodies ==
  {Body("D-1", "a@x", "", Feb28, SlotLabel(9, 0)),
   Body("D-1", "a@x", "", Feb29, SlotLabel(9, 15)),
   Body("D-1", "a@x", "", Mar01, SlotLabel(9, 15))}

QueryDates == {Feb28, Feb29, Mar01, BadDate, <<0, 0>>}

InitQuery == InitWith({D1, D3}, {EnvPlain}, {NoBusy})

NextQuery ==
  \/ \E doctorId \in {"D-1", "D-3", "D-9"}, date \in QueryDates :
       QueryReceive(doctorId, date) /\ Quiet
  \/ QuerySteps
  \/ \E body \in QueryBodies : BookReceive("r1", {body}) /\ Quiet
  \/ BookSteps("r1")

SpecQuery == InitQuery /\ [][NextQuery]_vars

\* the doctor exists and the weekday of the date is unavailable or has no entry
DayNotWorked(doctorId, date) ==
  /\ date # <<0, 0>> /\ DateRegexTest(date)
  /\ \E d \in doctors :
       /\ d.doctorId = doctorId
       /\ LET dayOfWeek == DayOfWeek(date) IN
            \/ dayOfWeek \notin DOMAIN d.availability
            \/ ~d.availability[dayOfWeek].present
            \/ ~d.availability[dayOfWeek].available

\* C8: a query for a day the doctor does not work is answered with an empty
\* list of slots, and the handler reaches neither the free/busy call nor the
\* appointment lookup, at any point of its run.
C8_DayOffShortCircuits ==
  (qry.pc # "idle" /\ DayNotWorked(qry.doctorId, qry.date))
  => /\ qry.freeBusyCalls = 0 /\ qry.findCalls = 0
     /\ qry.pc \notin {"getFreeBusy", "findAppointments"}
     /\ qry.pc = "done" => (qry.res.status = 200 /\ qry.res.availableSlots = <<>>)

\* D-3, who has a calendar, is asked about a Friday (marked unavailable) or a
\* Saturday (no entry) and has answered
C8_Witness ==
  /\ qry.pc = "done" /\ qry.doctorId = "D-3" /\ qry.date \in {Feb28, Mar01}
  /\ qry.doctor.calendarId # ""
  /\ DayNotWorked(qry.doctorId, qry.date)
  /\ qry.res.status = 200 /\ qry.res.availableSlots = <<>>

\* C10: a booking request for a slot that the availability query answered
\* immediately before has listed, for the same doctor and date and with no
\* write to the appointment store in between, is not rejected with 409.
C10_OfferedIsAccepted ==
  \A p \in Procs :
    (req[p].pc = "done" /\ req[p].offered) => req[p].res.status # 409

\* the slots of the working window of the query's day, in order, that meet no
\* stored appointment of the doctor that is not cancelled
WindowSlotsNotBooked ==
  LET window == generateAvailableSlots(qry.date, qry.dayAvailability.start,
                                       qry.dayAvailability.end, <<>>, <<>>)
      booked(slot) ==
        \E i \in 1..Len(appointments) :
          /\ appointments[i].doctorId = qry.doctorId
          /\ Active(i)
          /\ Overlaps(DateGetTime(slot.startISO), DateGetTime(slot.endISO),
                      appointments[i].startDateTime, appointments[i].endDateTime)
  IN SelectSeq(window, LAMBDA slot : ~booked(slot))

\* C29: when getFreeBusy fails during an availability query, the query is
\* answered with 200, the busy intervals are empty, and the slots listed are
\* the slots of the working window that overlap no stored appointment of the
\* doctor that is not cancelled.
C29_CalendarFailureStillAnswers ==
  (qry.pc = "done" /\ qry.freeBusy = "failed")
  => /\ qry.res.status = 200
     /\ qry.busyPeriods = <<>>
     /\ qry.res.availableSlots = WindowSlotsNotBooked

\* the part of C29 that does not depend on the date under which an
\* appointment is stored
CalendarFailureStillAnswersOnStoredDate ==
  (qry.pc = "done" /\ qry.freeBusy = "failed")
  => /\ qry.res.status = 200
     /\ qry.busyPeriods = <<>>
     /\ (\A i \in 1..Len(appointments) :
           (appointments[i].doctorId = qry.doctorId /\ Active(i)
            /\ DayNumber(appointments[i].date) = DayNumber(qry.date))
           => appointments[i].date = qry.date)
          => qry.res.availableSlots = WindowSlotsNotBooked

-----------------------------------------------------------------------------
(* SpecOffer: availability queries and bookings, one request at a time, for *)
(* a doctor whose calendar reports a busy interval                          *)

OfferBodies ==
  {Body("D-1", "a@x", "", Feb28, SlotLabel(9, 0)),
   Body("D-1", "a@x", "", Feb28, SlotLabel(10, 0)),
   Body("D-1", "a@x", "", Mar01, SlotLabel(9, 45)),
   Body("D-3", "a@x", "", Feb28, SlotLabel(9, 0)),
   Body("D-9", "b@x", "", Feb28, SlotLabel(9, 0))}

InitOffer == InitWith({D1, D3}, {EnvPlain}, {NoBusy, FriBusy})

NextOffer ==
  \/ \E doctorId \in {"D-1", "D-3"}, date \in {Feb28, Mar01} :
       QueryReceive(doctorId, date) /\ Quiet
  \/ QuerySteps
  \/ \E body \in OfferBodies : BookReceive("r1", {body}) /\ Quiet
  \/ BookSteps("r1")

SpecOffer == InitOffer /\ [][NextOffer]_vars

\* C11: a booking request for a slot that the availability query answered
\* immediately before, for the same doctor and date, has not listed is not
\* accepted.
C11_NotOfferedIsRejected ==
  \A p \in Procs :
    (req[p].pc = "done" /\ req[p].refused) => req[p].res.status # 200

\* C13: an availability answer for a doctor and a date lists no slot that a
\* stored, not cancelled appointment of that doctor on that date has booked.
C13_BookedSlotNotOfferedAgain ==
  (qry.pc = "done" /\ qry.res.status = 200)
  => \A i \in 1..Len(appointments) :
       (/\ appointments[i].doctorId = qry.doctorId
        /\ appointments[i].date = qry.date
        /\ Active(i))
       => \A j \in 1..Len(qry.res.availableSlots) :
            qry.res.availableSlots[j].time # appointments[i].timeSlot

\* C14: the availability answer for a doctor with a calendar lists no slot
\* that overlaps a busy interval carried by the free/busy response for that
\* calendar.
C14_BusySlotNotListed ==
  (qry.pc = "done" /\ qry.res.status = 200 /\ qry.doctor.calendarId # "")
  => \A j \in 1..Len(qry.res.availableSlots) :
       \A k \in 1..Len(qry.reported) :
         ~Overlaps(DateGetTime(qry.res.availableSlots[j].startISO),
                   DateGetTime(qry.res.availableSlots[j].endISO),
                   qry.reported[k].start, qry.reported[k].end)

\* C18: a booking for a doctorId that no stored doctor has is answered with
\* 404 straight after the doctor lookup: the patients, the appointments, the
\* calendar and the sent emails are as they were when the request arrived,
\* and neither createEvent nor the mailer has been called.
C18_UnknownDoctorNoEffects ==
  \A p \in Procs :
    /\ (req[p].pc = "done" /\ req[p].res.status = 404)
       => /\ patients = req[p].before.patients
          /\ appointments = req[p].before.appointments
          /\ calendarEvents = req[p].before.calendarEvents
          /\ sentEmails = req[p].before.sentEmails
          /\ req[p].calendar = "none"
          /\ req[p].emailStatus = "null"
    /\ (req[p].pc # "idle" /\ FindDoctor(req[p].body.doctorId) = {})
       => /\ req[p].pc \in {"findDoctor", "done"}
          /\ req[p].pc = "done" => req[p].res.status \in {400, 401, 404}

\* a 404 answer for the unknown doctor D-9 while patients, appointments and
\* calendar events are stored
C18_Witness ==
  /\ req["r1"].pc = "done" /\ req["r1"].res.status = 404
  /\ req["r1"].body.doctorId = "D-9"
  /\ patients # <<>> /\ appointments # <<>> /\ calendarEvents # {}

-----------------------------------------------------------------------------
(* SpecPatients: bookings by patients with different contact details, one   *)
(* request at a time                                                        *)

Contact(name, email, phone) ==
  [Body("D-1", email, phone, Feb28, SlotLabel(9, 0)) EXCEPT !.patientName = name]

PatientBodies ==
  {Contact("Ann", "a@x", ""),
   Contact("Bob", "b@x", "555"),
   Contact("Cy", "b@x", ""),
   Contact("Dan", "", "555")}

InitPatients == InitWith({D1NoCalendar}, {EnvPlain}, {NoBusy})

NextPatients ==
  \/ \E body \in PatientBodies : BookReceive("r1", {body}) /\ Quiet
  \/ BookSteps("r1")

SpecPatients == InitPatients /\ [][NextPatients]_vars

\* request p has got past its patient.save()
UpsertDone(p) ==
  \/ req[p].pc \in {"findConflict", "createEvent", "saveAppointment", "sendEmail"}
  \/ /\ req[p].pc = "done"
     /\ \/ req[p].res.status \in {200, 409}
        \/ req[p].res.error \in {"Invalid time slot format", "Cast to date failed",
                                 "appointment save failed",
                                 "Appointment validation failed"}

\* the patients stored when request p arrived whose email or phone equals the
\* email or phone that the request supplies
MatchedPatients(p) ==
  LET b == req[p].body
      old == req[p].before.patients
  IN {i \in 1..Len(old) :
        \/ (b.patientEmail # "" /\ old[i].email = b.patientEmail)
        \/ (b.patientPhone # "" /\ old[i].phone = b.patientPhone)}

\* C15: a booking whose email or phone equals that of a stored patient adds no
\* patient, and a matched record keeps its patientId and takes the supplied
\* name, email and phone; a patient is added only when no stored patient
\* matches.
C15_UpsertByContact ==
  \A p \in Procs :
    UpsertDone(p)
    => LET b == req[p].body
           old == req[p].before.patients
       IN /\ MatchedPatients(p) # {}
               => /\ Len(patients) = Len(old)
                  /\ \E i \in MatchedPatients(p) :
                       /\ patients[i].patientId = old[i].patientId
                       /\ patients[i].name = b.patientName
                       /\ b.patientEmail # "" => patients[i].email = b.patientEmail
                       /\ b.patientPhone # "" => patients[i].phone = b.patientPhone
          /\ Len(patients) > Len(old) => MatchedPatients(p) = {}

\* C35: a booking that supplies only an email leaves every stored patient
\* with another email as it was, and a booking that supplies only a phone
\* leaves every stored patient with another phone as it was, also when that
\* patient has no value stored for the field the request lacks.
C35_AbsentFieldMatchesNothing ==
  \A p \in Procs :
    UpsertDone(p)
    => LET b == req[p].body
           old == req[p].before.patients
       IN \A i \in 1..Len(old) :
            (\/ (b.patientPhone = "" /\ old[i].email # b.patientEmail)
             \/ (b.patientEmail = "" /\ old[i].phone # b.patientPhone))
            => patients[i] = old[i]

-----------------------------------------------------------------------------
(* SpecRegister: patient registrations and bookings, one request at a time *)

RegisterBodies ==
  {[name |-> "Ann", email |-> "a@x", phone |-> ""],
   [name |-> "Ann", email |-> "a@x", phone |-> "555"],
   [name |-> "Bob", email |-> "b@x", phone |-> ""],
   [name |-> "Bob", email |-> "", phone |-> "555"],
   [name |-> "", email |-> "a@x", phone |-> ""],
   [name |-> "Cy", email |-> "", phone |-> ""]}

InitRegister == InitWith({D1NoCalendar}, {EnvPlain}, {NoBusy})

NextRegister ==
  \/ \E body \in RegisterBodies : Register(body, "") /\ Quiet
  \/ \E body \in {Contact("Ann", "a@x", ""), Contact("Bob", "b@x", "555")} :
       BookReceive("r1", {body}) /\ Quiet
  \/ BookSteps("r1")

SpecRegister == InitRegister /\ [][NextRegister]_vars

\* C16: a registration with the email of a stored patient succeeds with that
\* patient's record as its result and leaves the patient store as it was.
C16_RegisterIdempotent ==
  (/\ out.op = "register" /\ out.body.name # "" /\ out.body.email # ""
   /\ \E i \in 1..Len(out.before.patients) :
        out.before.patients[i].email = out.body.email)
  => /\ out.status = 200
     /\ \E i \in 1..Len(out.before.patients) :
          /\ out.before.patients[i].email = out.body.email
          /\ out.patient = out.before.patients[i]
     /\ patients = out.before.patients

-----------------------------------------------------------------------------
(* SpecContacts: patient registrations and bookings, one request at a time, *)
(* with contact details that meet in one request                            *)

ContactRegistrations ==
  {[name |-> "Ann", email |-> "a@x", phone |-> ""],
   [name |-> "Bob", email |-> "", phone |-> "555"],
   [name |-> "Bob", email |-> "b@x", phone |-> "555"]}

ContactBodies ==
  {Contact("Ann", "a@x", "555"),
   Contact("Ann", "a@x", ""),
   Contact("Dan", "", "555")}

InitContacts == InitWith({D1NoCalendar}, {EnvPlain}, {NoBusy})

NextContacts ==
  \/ \E body \in ContactRegistrations : Register(body, "") /\ Quiet
  \/ \E body \in ContactBodies : BookReceive("r1", {body}) /\ Quiet
  \/ BookSteps("r1")

SpecContacts == InitContacts /\ [][NextContacts]_vars

\* C34: no two stored patients have the same email and no two have the same
\* phone, after any sequence of registrations and bookings run one at a time.
C34_ContactsAreUnique ==
  \A i, j \in 1..Len(patients) :
    i # j
    => /\ patients[i].email # "" => patients[i].email # patients[j].email
       /\ patients[i].phone # "" => patients[i].phone # patients[j].phone

-----------------------------------------------------------------------------
(* SpecCancel: bookings and cancellations, one request at a time *)

CancelBodies ==
  {Body("D-1", "a@x", "", Feb28, SlotLabel(9, 0)),
   Body("D-1", "a@x", "", Feb28, SlotLabel(9, 30))}

InitCancel == InitWith({D1}, {EnvPlain}, {NoBusy})

NextCancel ==
  \/ \E body \in CancelBodies : BookReceive("r1", {body}) /\ Quiet
  \/ BookSteps("r1")
  \/ \E id \in 1..MaxAppts : CancelRequest(id, "") /\ Quiet

SpecCancel == InitCancel /\ [][NextCancel]_vars

-----------------------------------------------------------------------------
(* SpecRelease: bookings, cancellations and availability queries, one       *)
(* request at a time, for a doctor with a calendar and for the same doctor  *)
(* without one; the calendar holds nothing but the events that book inserts *)

ReleaseBodies ==
  {Body("D-1", "a@x", "", Feb28, SlotLabel(9, 0)),
   Body("D-1", "a@x", "", Feb28, SlotLabel(9, 30))}

InitRelease ==
  \/ InitWith({D1}, {EnvPlain}, {NoBusy})
  \/ InitWith({D1NoCalendar}, {EnvPlain}, {NoBusy})

NextRelease ==
  \/ \E body \in ReleaseBodies : BookReceive("r1", {body}) /\ Quiet
  \/ BookSteps("r1")
  \/ \E id \in 1..MaxAppts : CancelRequest(id, "") /\ Quiet
  \/ QueryReceive("D-1", Feb28) /\ Quiet
  \/ QuerySteps

SpecRelease == InitRelease /\ [][NextRelease]_vars

\* appointment i of the store appts is cancelled and no appointment of its
\* doctor that is not cancelled overlaps its interval
Released(appts, i) ==
  /\ appts[i].status = "cancelled"
  /\ \A j \in 1..Len(appts) :
       (appts[j].doctorId = appts[i].doctorId /\ appts[j].status # "cancelled")
       => ~Overlaps(appts[i].startDateTime, appts[i].endDateTime,
                    appts[j].startDateTime, appts[j].endDateTime)

\* the availability answer lists the slot of every released appointment of
\* the doctor and date it was asked about
ReleasedSlotsListed ==
  (qry.pc = "done" /\ qry.res.status = 200)
  => \A i \in 1..Len(appointments) :
       (/\ appointments[i].doctorId = qry.doctorId
        /\ appointments[i].date = qry.date
        /\ Released(appointments, i))
       => \E j \in 1..Len(qry.res.availableSlots) :
            qry.res.availableSlots[j].time = appointments[i].timeSlot

\* a booking for the doctor, date and slot of an appointment that was released
\* when the request arrived is not refused as a conflict
ReleasedSlotsBookable ==
  \A p \in Procs :
    (/\ req[p].pc = "done"
     /\ \E i \in 1..Len(req[p].before.appointments) :
          /\ req[p].before.appointments[i].doctorId = req[p].body.doctorId
          /\ req[p].before.appointments[i].date = req[p].body.date
          /\ req[p].before.appointments[i].timeSlot = req[p].body.timeSlot
          /\ Released(req[p].before.appointments, i))
    => req[p].res.status # 409

\* C31: after a cancel has succeeded, and with no other appointment of the
\* doctor overlapping the cancelled one, the availability query for that
\* doctor and date lists the slot again and a new booking for the same
\* interval is not refused as a conflict.
C31_CancelReleasesSlot ==
  ReleasedSlotsListed /\ ReleasedSlotsBookable

\* the same for a doctor without a calendar
CancelReleasesSlotWithoutCalendar ==
  (\A d \in doctors : d.calendarId = "") => C31_CancelReleasesSlot

\* a slot is booked again, with success, after its first booking was cancelled
RebookedAfterCancel ==
  /\ req["r1"].pc = "done" /\ req["r1"].res.status = 200
  /\ \E i, j \in 1..Len(appointments) :
       /\ appointments[i].status = "cancelled"
       /\ appointments[j].status = "confirmed"
       /\ appointments[j].appointmentId = req["r1"].appointmentId
       /\ appointments[j].timeSlot = appointments[i].timeSlot
       /\ appointments[j].date = appointments[i].date

\* a slot was booked, cancelled, booked again and cancelled again, each time
\* with an event inserted in the doctor's calendar, which is still busy at that
\* time; the availability query lists the slot
C31_Witness ==
  /\ qry.pc = "done" /\ qry.res.status = 200 /\ qry.doctor.calendarId # ""
  /\ \E i, j \in 1..Len(appointments) :
       /\ i < j
       /\ appointments[i].doctorId = qry.doctorId
       /\ appointments[i].date = qry.date
       /\ appointments[j].doctorId = appointments[i].doctorId
       /\ appointments[j].date = appointments[i].date
       /\ appointments[j].timeSlot = appointments[i].timeSlot
       /\ appointments[i].googleEventId # ManualId
       /\ appointments[j].googleEventId # ManualId
       /\ Released(appointments, i) /\ Released(appointments, j)
       /\ \E k \in 1..Len(busyCalendar[qry.doctor.calendarId]) :
            /\ busyCalendar[qry.doctor.calendarId][k].start = appointments[i].startDateTime
            /\ busyCalendar[qry.doctor.calendarId][k].end = appointments[i].endDateTime
       /\ \E k \in 1..Len(qry.res.availableSlots) :
            qry.res.availableSlots[k].time = appointments[i].timeSlot

-----------------------------------------------------------------------------
(* SpecLegacy: bookings through POST /appointments/book and through       *)
(* POST /appointments, and cancellations, one request at a time           *)

LegacyBody(doctorId, patientId, startHM, endHM) ==
  [doctorId |-> doctorId, patientId |-> patientId,
   startDateTimeISO |-> ISO(Feb28, startHM), endDateTimeISO |-> ISO(Feb28, endHM)]

LegacyBodies ==
  {LegacyBody("D-1", 1, <<9, 0>>, <<9, 30>>),
   LegacyBody("D-1", 1, <<9, 15>>, <<9, 45>>),
   LegacyBody("D-1", 1, <<9, 30>>, <<10, 0>>),
   LegacyBody("D-1", 1, <<9, 0>>, <<24, 30>>),
   LegacyBody("D-9", 1, <<9, 0>>, <<9, 30>>),
   LegacyBody("D-1", 9, <<9, 0>>, <<9, 30>>),
   [LegacyBody("D-1", 1, <<9, 0>>, <<9, 30>>) EXCEPT !.endDateTimeISO = NoISO]}

InitLegacy == InitWith({D1}, {EnvPlain}, {NoCalendars})

NextLegacy ==
  \/ BookReceive("r1", {Body("D-1", "a@x", "", Feb28, SlotLabel(9, 0))}) /\ Quiet
  \/ BookSteps("r1")
  \/ \E body \in LegacyBodies, schema \in LegacySchemas :
       PostAppointments(body, "", schema) /\ Quiet
  \/ \E id \in 1..MaxAppts : CancelRequest(id, "") /\ Quiet

SpecLegacy == InitLegacy /\ [][NextLegacy]_vars

\* C32: POST /appointments never persists an appointment whose interval
\* overlaps that of a stored appointment of the same doctor that is not
\* cancelled: an appointment that the route has just persisted overlaps no
\* other one of its doctor.
C32_LegacyRouteNoDoubleBooking ==
  (out.op = "postAppointments" /\ out.status = 200)
  => \A i \in 1..Len(out.before.appointments) :
       (/\ out.before.appointments[i].doctorId = out.doctorId
        /\ out.before.appointments[i].status # "cancelled")
       => ~IntervalsIntersect(out.before.appointments[i].startDateTime,
                              out.before.appointments[i].endDateTime,
                              appointments[Len(appointments)].startDateTime,
                              appointments[Len(appointments)].endDateTime)

-----------------------------------------------------------------------------
(* SpecAuth: the mutating routes, one request at a time, with API_KEY set, *)
(* for requests that carry the key and requests that carry none            *)

AuthKeys == {"", "k"}

AuthBodies ==
  {[Body("D-1", "a@x", "", Feb28, SlotLabel(9, 0)) EXCEPT !.key = key] : key \in AuthKeys}

AuthContacts ==
  {[name |-> "Ann", email |-> "a@x", phone |-> ""],
   [name |-> "Bob", email |-> "", phone |-> "555"]}

InitAuth == InitWith({D1NoCalendar}, {EnvKey}, {NoBusy})

\* the ids handed out so far stay within the bounds
IdsInBounds ==
  /\ nextId.appointment <= MaxAppts
  /\ nextId.patient <= MaxPatients

NextAuth ==
  \/ \E body \in AuthBodies : BookReceive("r1", {body}) /\ Quiet /\ IdsInBounds
  \/ BookSteps("r1")
  \/ \E key \in AuthKeys : CancelRequest(1, key) /\ Quiet
  \/ \E key \in AuthKeys : DeleteAppointment(1, key) /\ Quiet
  \/ \E body \in AuthContacts, key \in AuthKeys :
       Register(body, key) /\ Quiet /\ IdsInBounds
  \/ \E body \in AuthContacts, key \in AuthKeys :
       PostPatients(body, key) /\ Quiet /\ IdsInBounds
  \/ \E key \in AuthKeys : PutPatient(1, [name |-> "Zed"], key) /\ Quiet
  \/ \E key \in AuthKeys : DeletePatient(1, key) /\ Quiet
  \/ \E key \in AuthKeys : PostDoctors(D2, key) /\ Quiet
  \/ \E key \in AuthKeys : PutDoctor("D-2", [name |-> "Dr Zed"], key) /\ Quiet
  \/ \E key \in AuthKeys : DeleteDoctor("D-2", key) /\ Quiet

SpecAuth == InitAuth /\ [][NextAuth]_vars

\* C20: with API_KEY set, a request to a mutating route that carries no
\* matching key is answered with 401 and leaves the doctors, the patients, the
\* appointments and the calendar as they were.
C20_UnauthorizedRejected ==
  /\ (out.op # "" /\ env.API_KEY # "" /\ out.key # env.API_KEY)
     => /\ out.status = 401
        /\ AllStores = out.before
  /\ \A p \in Procs :
       (req[p].pc # "idle" /\ env.API_KEY # "" /\ req[p].body.key # env.API_KEY)
       => /\ req[p].pc = "done" /\ req[p].res.status = 401
          /\ patients = req[p].before.patients
          /\ appointments = req[p].before.appointments
          /\ calendarEvents = req[p].before.calendarEvents

-----------------------------------------------------------------------------
(* SpecReadOnly: availability queries that run, one after the other, while *)
(* a booking is between its steps                                         *)

ReadOnlyBodies ==
  {Body("D-1", "a@x", "", Feb28, SlotLabel(9, 0)),
   Body("D-1", "a@x", "", Feb28, SlotLabel(9, 30))}

InitReadOnly == InitWith({D1, D3}, {EnvPlain}, {NoBusy})

NextReadOnly ==
  \/ \E doctorId \in {"D-1", "D-3", "D-9"}, date \in {Feb28, BadDate, <<0, 0>>} :
       QueryReceive(doctorId, date)
  \/ QuerySteps
  \/ QueryThrows
  \/ \E body \in ReadOnlyBodies : BookReceive("r1", {body})
  \/ BookSteps("r1")

SpecReadOnly == InitReadOnly /\ [][NextReadOnly]_vars

\* a step of the availability handler: the query record changes and is not
\* merely forgotten
QueryMoved == qry' # qry /\ qry'.pc # "idle"

\* the booking has run as a booking that meets no query runs: it is refused
\* with 409 exactly when the appointments stored at its arrival hold a
\* conflict, and the appointment store is the one of its arrival, with the
\* saved appointment added after a success
BookedAsIfAlone(p) ==
  LET r == req[p]
      old == r.before.appointments
  IN /\ r.res.status \in {200, 409}
          => (r.res.status = 409
                <=> ConflictingAppointment(old, r.doctor.doctorId,
                                           r.startDateTimeISO, r.endDateTimeISO) # {})
     /\ r.res.status = 200
          => /\ Len(appointments) = Len(old) + 1
             /\ SubSeq(appointments, 1, Len(old)) = old
     /\ r.res.status # 200 => appointments = old

\* C26: no step of an availability query, whatever its input and its outcome
\* (200, 400, 404, 500, a failed free/busy call), changes the doctors, the
\* patients or the appointments; a booking that runs while queries run ends
\* as it would have ended alone.
C26_QueryIsReadOnly ==
  /\ [][QueryMoved => UNCHANGED <<doctors, patients, appointments>>]_vars
  /\ [](\A p \in Procs : req[p].pc = "done" => BookedAsIfAlone(p))

\* a query that was running while the booking ran has ended with 500, and the
\* booking has succeeded next to an earlier one
C26_Witness ==
  /\ req["r1"].pc = "done" /\ req["r1"].res.status = 200
  /\ Len(appointments) = 2
  /\ qry.pc = "done" /\ qry.res.status = 500

-----------------------------------------------------------------------------
(* SpecDoctors: doctors created and updated through POST /doctors and *)
(* PUT /doctor/:doctorId, one request at a time                        *)

\* { available: true } with no start and no end
NoHours == [present |-> TRUE, available |-> TRUE, start |-> <<>>, end |-> <<>>]

DayEntries ==
  {DayOff, Working(<<9, 0>>, <<10, 0>>), Working(<<10, 0>>, <<9, 0>>),
   Working(<<9, 0>>, <<9, 0>>), NoHours}

DoctorPayloads ==
  {DoctorDoc(doctorId, "", friday, DayOff) :
     doctorId \in {"D-1", "D-4"}, friday \in DayEntries}

\* bodies of PUT /doctor/:doctorId: a new name, or a new weekly schedule
DoctorUpdates ==
  {[name |-> "Dr Zed"]}
  \cup {[availability |-> d.availability] : d \in DoctorPayloads}

InitDoctors == InitWith({D1NoCalendar}, {EnvPlain}, {NoBusy})

NextDoctors ==
  \/ \E payload \in DoctorPayloads : PostDoctors(payload, "")
  \/ \E doctorId \in {"D-1", "D-4"}, update \in DoctorUpdates :
       PutDoctor(doctorId, update, "")

SpecDoctors == InitDoctors /\ [][NextDoctors]_vars

\* C28: every weekday entry of a stored doctor that has available = true has
\* a start and an end, and its start is before its end.
C28_AvailableEntryHasHours ==
  \A d \in doctors : \A w \in Weekdays :
    d.availability[w].available
    => /\ d.availability[w].start # <<>>
       /\ d.availability[w].end # <<>>
       /\ d.availability[w].start[1] * 60 + d.availability[w].start[2]
            < d.availability[w].end[1] * 60 + d.availability[w].end[2]

-----------------------------------------------------------------------------
(* SpecOtp: the one-time passcodes of two emails, with the clock and the *)
(* expiry timers                                                         *)

MaxTime == 6

MaxTimers == 2

OtpCodes == {"123456", "654321"}

\* the codes as strings, one of them as a number, and a missing code
OtpInputs == {Str(c) : c \in OtpCodes} \cup {Num("123456"), Undefined}

InitOtp == InitWith({D1}, {EnvPlain}, {NoBusy})

\* every call for a@x; for b@x, one code that is issued in the first minute
\* and submitted as it is
OtpCalls ==
  {[email |-> "a@x", otp |-> otp] : otp \in OtpInputs}
  \cup {[email |-> "b@x", otp |-> Str("123456")]}

NextOtp ==
  \/ \E call \in OtpCalls :
       /\ call.otp.type = "string"
       /\ call.email = "b@x" => now = 0
       /\ BagCardinality(timers) < MaxTimers
       /\ storeOTP(call.email, call.otp)
  \/ \E timer \in BagToSet(timers) : TimerFires(timer)
  \/ \E call \in OtpCalls : verifyOTP(call.email, call.otp)
  \/ \E email \in {"a@x"} : getOTPStatus(email)
  \/ Tick(MaxTime)

SpecOtp == InitOtp /\ [][NextOtp]_vars

\* C22: verifyOTP answers valid exactly when, at the call, a code is stored for
\* the email, the submitted code (as text) is the issued code, the clock has
\* not passed the expiry of the code and fewer than 5 verifications of it have
\* failed; after a valid answer no code is stored for the email.
C22_ValidOnlyWhenIssuedMatchedFresh ==
  (otpOut.op = "verifyOTP")
  => LET e == otpOut.email
         h == otpOut.hist
     IN /\ otpOut.valid
             <=> /\ otpOut.stored
                 /\ h.issued
                 /\ toString(otpOut.otp) = h.otp
                 /\ now <= h.issuedAt + OTP_EXPIRY_TIME
                 /\ h.failed < MaxAttempts
        /\ otpOut.valid => e \notin DOMAIN otpStore

\* a valid answer to the issued code submitted as a number after four failed
\* verifications, at the minute of the expiry
C22_Witness ==
  /\ otpOut.op = "verifyOTP" /\ otpOut.valid
  /\ otpOut.otp.type = "number"
  /\ otpOut.hist.failed = MaxAttempts - 1
  /\ now = otpOut.hist.issuedAt + OTP_EXPIRY_TIME
  /\ otpOut.email \notin DOMAIN otpStore

\* C23: once 5 verifications of an issued code have failed, no entry is stored
\* for the email (getOTPStatus reports none), and no later verifyOTP for the
\* email is answered valid until storeOTP issues a new code.
C23_ExhaustedCodeIsEvicted ==
  /\ \A e \in OtpEmails :
       otpHist[e].failed >= MaxAttempts => e \notin DOMAIN otpStore
  /\ (otpOut.op = "getOTPStatus" /\ otpOut.hist.failed >= MaxAttempts)
       => ~otpOut.exists
  /\ (otpOut.op = "verifyOTP" /\ otpOut.hist.failed >= MaxAttempts)
       => ~otpOut.valid

\* the part of C23 that concerns later verifications, on its own
ExhaustedNeverVerifies ==
  /\ \A e \in OtpEmails : otpHist[e].failed <= MaxAttempts
  /\ (otpOut.op = "verifyOTP" /\ otpOut.hist.failed >= MaxAttempts)
       => (~otpOut.valid /\ otpOut.email \notin DOMAIN otpStore)

\* C24: a verifyOTP call made after the expiry of the code issued last for the
\* email (more than OTP_EXPIRY_TIME after storeOTP) is answered invalid, also
\* for the correct code, and leaves no entry for the email.
C24_ExpiredCodeNeverVerifies ==
  (/\ otpOut.op = "verifyOTP"
   /\ otpOut.hist.issued
   /\ now > otpOut.hist.issuedAt + OTP_EXPIRY_TIME)
  => /\ ~otpOut.valid
     /\ otpOut.email \notin DOMAIN otpStore

\* the correct code, never tried before, is submitted a minute after its
\* expiry while its entry is still stored; the answer is "expired" and the
\* entry is gone
C24_Witness ==
  /\ otpOut.op = "verifyOTP"
  /\ otpOut.stored /\ otpOut.before.otp = toString(otpOut.otp)
  /\ otpOut.before.attempts = 0
  /\ now = otpOut.before.expiryTime + 1
  /\ ~otpOut.valid /\ otpOut.message = "OTP has expired"
  /\ otpOut.email \notin DOMAIN otpStore

\* C25: after a verifyOTP call for an email has been answered valid, no later
\* call for that email is answered valid, whatever code it submits, until
\* storeOTP issues a new code; in the meantime no entry is stored for it.
C25_ConsumedOnce ==
  /\ (otpOut.op = "verifyOTP" /\ otpOut.hist.consumed) => ~otpOut.valid
  /\ \A e \in OtpEmails : otpHist[e].consumed => e \notin DOMAIN otpStore

\* the code that was answered valid is submitted again before its expiry and
\* is answered invalid
C25_Witness ==
  /\ otpOut.op = "verifyOTP" /\ otpOut.hist.consumed
  /\ toString(otpOut.otp) = otpOut.hist.otp
  /\ now <= otpOut.hist.issuedAt + OTP_EXPIRY_TIME
  /\ ~otpOut.valid

\* C37: a code stays stored, and so verifiable, until OTP_EXPIRY_TIME has
\* passed since the storeOTP call that issued it, unless a verification has
\* consumed it or 5 verifications of it have failed; the timer of a code
\* issued earlier for the same email does not remove it.
C37_CodeLivesItsFullTime ==
  \A e \in OtpEmails :
    (/\ otpHist[e].issued
     /\ ~otpHist[e].consumed
     /\ otpHist[e].failed < MaxAttempts
     /\ now < otpHist[e].issuedAt + OTP_EXPIRY_TIME)
    => /\ e \in DOMAIN otpStore
       /\ otpStore[e].otp = otpHist[e].otp

\* C38: storeOTP for an email that has a code stored replaces it.  The entry
\* holds the code issued last with as many attempts as verifications of that
\* code have failed, none straight after storeOTP; a verification is answered
\* valid only for the code issued last; the replaced code, when it differs,
\* is not answered valid.
C38_StoreReplaces ==
  /\ \A e \in DOMAIN otpStore :
       /\ otpHist[e].issued
       /\ otpStore[e].otp = otpHist[e].otp
       /\ otpStore[e].attempts = otpHist[e].failed
       /\ otpStore[e].expiryTime = otpHist[e].issuedAt + OTP_EXPIRY_TIME
  /\ (otpOut.op = "verifyOTP" /\ otpOut.valid)
       => toString(otpOut.otp) = otpOut.hist.otp
  /\ (/\ otpOut.op = "verifyOTP"
      /\ otpOut.hist.previous # Str("")
      /\ otpOut.hist.previous # otpOut.hist.otp
      /\ toString(otpOut.otp) = otpOut.hist.previous)
       => ~otpOut.valid

\* a code with failed verifications has been replaced by another code, and
\* the replaced code is submitted: it is the first failure counted against
\* the new code
C38_Witness ==
  /\ otpOut.op = "verifyOTP" /\ otpOut.stored
  /\ otpOut.hist.previous # Str("")
  /\ otpOut.hist.previous # otpOut.hist.otp
  /\ toString(otpOut.otp) = otpOut.hist.previous
  /\ otpOut.before.attempts = 0
  /\ ~otpOut.valid /\ otpOut.message = "Invalid OTP"
  /\ otpOut.remainingAttempts = MaxAttempts - 1
  /\ otpStore[otpOut.email].otp = otpOut.hist.otp
  /\ otpStore[otpOut.email].attempts = 1

\* C39: every stored entry has between 0 and 5 attempts; every
\* remainingAttempts that verifyOTP returns is null or between 0 and 4; and a
\* verifyOTP call for one email leaves the entries of all other emails as
\* they were.
C39_AttemptsBoundedAndLocal ==
  /\ [](\A e \in DOMAIN otpStore : otpStore[e].attempts \in 0..MaxAttempts)
  /\ [](otpOut.op = "verifyOTP"
          => otpOut.remainingAttempts \in {Null} \cup 0..(MaxAttempts - 1))
  /\ []((otpOut.op = "getOTPStatus" /\ otpOut.exists)
          => otpOut.attempts \in 0..MaxAttempts)
  /\ [][otpOut'.op = "verifyOTP"
         => \A e \in OtpEmails \ {otpOut'.email} :
              /\ e \in DOMAIN otpStore' <=> e \in DOMAIN otpStore
              /\ e \in DOMAIN otpStore => otpStore'[e] = otpStore[e]]_vars

\* the fifth failed verification for one email, answered with no attempt
\* remaining, while a code is stored for the other email
C39_Witness ==
  /\ otpOut.op = "verifyOTP" /\ otpOut.email = "a@x"
  /\ otpOut.message = "Invalid OTP" /\ otpOut.remainingAttempts = 0
  /\ otpStore["a@x"].attempts = MaxAttempts
  /\ "b@x" \in DOMAIN otpStore

====
